---- MODULE Spec2Model ----
(***************************************************************************)
(* Model of the NLDF factory order directory (src/order.py,               *)
(* src/shared_order_manager.py): products, orders, the OrderManager maps  *)
(* and the SharedOrderManager lock, processed set and round-robin counter.*)
(*                                                                         *)
(* Python objects are modelled as heap cells: heapP[r] is the Product     *)
(* object with reference r, heapO[r] the Order object with reference r.   *)
(* OrderManager.products maps a product id to a Product reference and     *)
(* OrderManager.orders maps an order id to an Order reference, so that    *)
(* object identity and aliasing are those of the program.                 *)
(*                                                                         *)
(* Strings that the program concatenates (order ids, product type         *)
(* strings) are sequences of "_"-separated segments, so that the product  *)
(* id f"prod_{type.lower()}_{order_id}_{counter:03d}" is the              *)
(* concatenation the program computes.                                    *)
(***************************************************************************)
EXTENDS Integers, Sequences, FiniteSets, TLC

\* ------------------------------------------------------------------ bounds
\* Sequential specifications: the clock value at which exploration stops (each
\* call that reads the clock advances it by one, from 1).
MaxClock == 4
\* Concurrent specification: number of threads calling process_order.
NThreads == 2
\* Class-C traversal specification: the longest processing history explored.
MaxReports == 10

\* Command validation: the longest oracle output (list of commands) explored.
MaxBatch == 2

\* Telemetry snapshot: the size cap of the alert list, scaled down from 50.
AlertCap == 2

\* Shutdown: the number of stop requests explored.
MaxStops == 2

\* Decision pipeline: the capacity of the event queue (asyncio.Queue(maxsize)),
\* scaled down from 100 / 50.
maxsize == 2

\* --------------------------------------------------------------- constants
\* Optional[datetime] = None: the unset time; the clock starts above it.
NoTime == 0
NoneVal == "None"
\* A reference to no object (Optional[Order] = None).
NoRef == 0

\* A key that a JSON object (message, command, params) does not have.
Absent == "#absent"

ProductTypes == {"P1", "P2", "P3"}

PENDING == "pending"
IN_TRANSPORT == "in_transport"
AT_STATION_A == "at_station_a"
AT_STATION_B == "at_station_b"
AT_STATION_C == "at_station_c"
AT_QUALITY_CHECK == "at_quality_check"
IN_WAREHOUSE == "in_warehouse"
FAILED_QC == "failed_qc"
ERROR == "error"
ProductStatus ==
  {PENDING, IN_TRANSPORT, AT_STATION_A, AT_STATION_B, AT_STATION_C,
   AT_QUALITY_CHECK, IN_WAREHOUSE, FAILED_QC, ERROR}

O_PENDING == "pending"
O_IN_PROGRESS == "in_progress"
O_COMPLETED == "completed"
OrderStatus == {O_PENDING, O_IN_PROGRESS, O_COMPLETED, "cancelled", "overdue"}

available_lines == <<"line1", "line2", "line3">>
Lines == {available_lines[i] : i \in 1..Len(available_lines)}

\* ------------------------------------------------------------------ inputs
\* Order ids as "_"-separated segments: "a" and "b_a".
OidA == <<"a">>
OidBA == <<"b", "a">>
\* payload.get("order_id") of a payload without order_id (falsy).
NoOrderId == <<>>
OrderIds == {OidA, OidBA}

\* An element of items that is not a dict: item.get raises AttributeError.
BadItem == [product_type |-> <<"#bad">>, quantity |-> 0]
\* items that cannot be iterated (e.g. null): the for loop raises TypeError.
NotAList == <<[product_type |-> <<"#notalist">>, quantity |-> 0]>>

Item(t, q) == [product_type |-> t, quantity |-> q]

\* The order payloads offered to process_order.
Payloads ==
  { [order_id |-> OidA,  items |-> <<Item(<<"P1">>, 2), Item(<<"P3">>, 1)>>],
    [order_id |-> OidA,  items |-> <<Item(<<"P1", "b">>, 1)>>],
    [order_id |-> OidA,  items |-> <<Item(<<"P1">>, 0)>>],
    [order_id |-> OidA,  items |-> NotAList],
    [order_id |-> OidBA, items |-> <<Item(<<"P1">>, 1)>>],
    [order_id |-> OidBA, items |-> <<Item(<<"P2">>, 1), BadItem>>],
    [order_id |-> OidBA, items |-> <<>>],
    [order_id |-> NoOrderId, items |-> <<Item(<<"P1">>, 1)>>] }

\* A product id that no order creates.
UnknownProductId == <<"prod", "zz">>

\* --------------------------------------------------------------- variables
VARIABLES
  orders,             \* OrderManager.orders: order id -> Order reference
  products,           \* OrderManager.products: product id -> Product reference
  active_order_ids,   \* OrderManager.active_order_ids
  heapP,              \* the Product objects, by reference
  heapO,              \* the Order objects stored so far, by reference
  processed_orders,   \* SharedOrderManager._processed_orders
  line_assignment_counter, \* SharedOrderManager._line_assignment_counter
  assignment_lock,    \* SharedOrderManager._assignment_lock: holder or 0
  pc,                 \* per thread: position in process_order
  local,              \* per thread: payload, order under construction, result
  now,                \* datetime.now(), as a logical clock
  selected,           \* history: the lines handed out, in order, with the order id
  returned,           \* history: the process_order call that finished last
  lastCall,           \* history: the last call and its arguments
  visits,             \* history: arrivals of the driven class-C product per station
  cc,                 \* the caller of complete_order_check: position and locals
  lc,                 \* LineCommander / FactoryAgentManager: queue and consumer
  mq,                 \* MQTTListenerManager: factory_state, its objects, a reader
  som                 \* SharedOrderManager: _instance, _initialized, the constructors

vars == <<orders, products, active_order_ids, heapP, heapO, processed_orders,
          line_assignment_counter, assignment_lock, pc, local, now,
          selected, returned, lastCall, visits, cc, lc, mq, som>>

\* ----------------------------------------------------------- small helpers
Put(f, k, v) == [x \in DOMAIN f \cup {k} |-> IF x = k THEN v ELSE f[x]]

EmptyMap == [x \in {} |-> NoRef]

Range(s) == {s[i] : i \in 1..Len(s)}

IsPrefix(s, t) == Len(s) <= Len(t) /\ \A i \in 1..Len(s) : s[i] = t[i]

RECURSIVE SumQuantity(_)
SumQuantity(items) ==
  IF items = <<>> THEN 0
  ELSE Head(items).quantity + SumQuantity(Tail(items))

\* str.lower() on one segment.
LowerSeg(s) ==
  CASE s = "P1" -> "p1"
    [] s = "P2" -> "p2"
    [] s = "P3" -> "p3"
    [] OTHER -> s

Lower(str) == [i \in 1..Len(str) |-> LowerSeg(str[i])]

\* f"{n:03d}"
Fmt3 == <<"001", "002", "003", "004", "005", "006", "007", "008", "009">>

\* f"prod_{product_type_str.lower()}_{order_id}_{product_counter:03d}"
ProductId(product_type_str, order_id, product_counter) ==
  <<"prod">> \o Lower(product_type_str) \o order_id \o <<Fmt3[product_counter]>>

\* ProductType(product_type_str), ValueError -> P1
ParseProductType(product_type_str) ==
  IF Len(product_type_str) = 1 /\ product_type_str[1] \in ProductTypes
  THEN product_type_str[1]
  ELSE "P1"

\* ------------------------------------------------------------------ Product
\* add_processing_step that keeps only the latest entry after the first.
AddProcessingStepOverwrite(p, location, action, timestamp) ==
  LET e == [location |-> location, action |-> action,
            timestamp |-> timestamp, status |-> p.status]
  IN [p EXCEPT !.processing_history =
        IF Len(@) >= 2 THEN [@ EXCEPT ![Len(@)] = e] ELSE Append(@, e)]

\* Product.add_processing_step: append one entry carrying the current status.
AddProcessingStep(p, location, action, timestamp) ==
  [p EXCEPT !.processing_history =
     Append(@, [location |-> location, action |-> action,
                timestamp |-> timestamp, status |-> p.status])]

\* OrderManager._create_product_from_item
CreateProductFromItem(product_id, product_type_str, t) ==
  AddProcessingStep(
    [product_id |-> product_id,
     product_type |-> ParseProductType(product_type_str),
     status |-> PENDING,
     current_location |-> "RawMaterial",
     assigned_agv |-> NoneVal,
     created_time |-> t,
     completion_time |-> NoTime,
     processing_history |-> <<>>],
    "RawMaterial", <<"order_received">>, t)

\* Product._get_p1_p2_next_step
GetP1P2NextStep(p) ==
  CASE p.status = PENDING -> "StationA"
    [] p.status = AT_STATION_A -> "StationB"
    [] p.status = AT_STATION_B -> "StationC"
    [] p.status = AT_STATION_C -> "QualityCheck"
    [] p.status = AT_QUALITY_CHECK -> "Warehouse"
    [] OTHER -> NoneVal

CountLocation(history, loc) ==
  Cardinality({i \in 1..Len(history) : history[i].location = loc})

\* Product._get_p3_next_step
GetP3NextStep(p) ==
  CASE p.status = PENDING -> "StationA"
    [] p.status = AT_STATION_A -> "StationB"
    [] p.status = AT_STATION_B ->
         IF CountLocation(p.processing_history, "StationB") < 2
         THEN "StationC" ELSE "StationC"
    [] p.status = AT_STATION_C ->
         IF CountLocation(p.processing_history, "StationC") < 2
         THEN "StationB" ELSE "QualityCheck"
    [] p.status = AT_QUALITY_CHECK -> "Warehouse"
    [] OTHER -> NoneVal

\* Product.get_next_processing_step
GetNextProcessingStep(p) ==
  IF p.product_type = "P3" THEN GetP3NextStep(p) ELSE GetP1P2NextStep(p)

TerminalStatus == {IN_WAREHOUSE, FAILED_QC}

\* -------------------------------------------------------------------- Order
NewOrder(order_id, t) ==
  [order_id |-> order_id, products |-> <<>>, status |-> O_PENDING,
   created_time |-> t, delivery_time |-> NoTime, assigned |-> FALSE,
   line_assignments |-> [l \in {} |-> <<>>]]

\* add_product that leaves the order's status alone.
AddProductKeepStatus(order, ref) == [order EXCEPT !.products = Append(@, ref)]

\* Order.add_product
AddProduct(order, ref) ==
  [order EXCEPT !.products = Append(@, ref),
                !.status = IF @ = O_PENDING THEN O_IN_PROGRESS ELSE @]

\* Order.get_pending_products: references of the products not yet terminal.
GetPendingProducts(order, hp) ==
  SelectSeq(order.products, LAMBDA r : hp[r].status \notin TerminalStatus)

\* is_completed that is satisfied by one terminal product.
IsCompletedAny(order, hp) ==
  \E i \in 1..Len(order.products) : hp[order.products[i]].status \in TerminalStatus

\* Order.is_completed
IsCompleted(order, hp) ==
  \A i \in 1..Len(order.products) : hp[order.products[i]].status \in TerminalStatus

\* Order.assign_product_to_line
AssignProductToLine(order, product_id, line_id) ==
  LET la0 == order.line_assignments
      la1 == IF line_id \in DOMAIN la0 THEN la0 ELSE Put(la0, line_id, <<>>)
  IN IF product_id \in Range(la1[line_id])
     THEN [order EXCEPT !.line_assignments = la1]
     ELSE [order EXCEPT !.line_assignments = Put(la1, line_id, Append(la1[line_id], product_id)),
                        !.assigned = TRUE]

\* Order.get_products_for_line
GetProductsForLine(order, line_id, hp) ==
  LET ids == IF line_id \in DOMAIN order.line_assignments
             THEN Range(order.line_assignments[line_id]) ELSE {}
  IN SelectSeq(order.products, LAMBDA r : hp[r].product_id \in ids)

\* ------------------------------------------------------------- OrderManager
\* The OrderManager's objects as one value: its three collections and the heap.
Mem ==
  [orders |-> orders, products |-> products, active |-> active_order_ids,
   hp |-> heapP, ho |-> heapO]

\* item.get("product_type", "P1")
ItemProductType(item) ==
  IF "product_type" \in DOMAIN item THEN item.product_type ELSE <<"P1">>

\* item.get("quantity", 1)
ItemQuantity(item) ==
  IF "quantity" \in DOMAIN item THEN item.quantity ELSE 1

\* One pass of "for i in range(quantity)": create a product, add it to the
\* order under construction and to OrderManager.products, advance the counter.
RECURSIVE ExpandQuantity(_, _, _, _, _)
ExpandQuantity(q, product_type_str, order_id, t, st) ==
  IF q <= 0 THEN st
  ELSE
    LET pid == ProductId(product_type_str, order_id, st.counter)
        ref == Len(st.hp) + 1
        product == CreateProductFromItem(pid, product_type_str, t)
    IN ExpandQuantity(q - 1, product_type_str, order_id, t,
         [st EXCEPT !.order = AddProduct(@, ref),
                    !.hp = Append(@, product),
                    !.products = Put(@, pid, ref),
                    !.counter = @ + 1])

\* "for item in items_data": stops at the first item that raises.
RECURSIVE ExpandItems(_, _, _, _)
ExpandItems(items, order_id, t, st) ==
  IF items = <<>> THEN st
  ELSE IF Head(items) = BadItem THEN [st EXCEPT !.ok = FALSE]
  ELSE ExpandItems(Tail(items), order_id, t,
         ExpandQuantity(ItemQuantity(Head(items)), ItemProductType(Head(items)),
                        order_id, t, st))

\* OrderManager.create_order_from_payload, lines 197-239: the checks and the
\* item loop. kind is "none" (no order_id), "existing", "error" (an exception,
\* caught at line 248) or "built" (order holds the Order to be stored).
BuildOrder(m, payload, t) ==
  IF payload.order_id = NoOrderId
  THEN [m |-> m, kind |-> "none", order |-> NewOrder(NoOrderId, t)]
  ELSE IF payload.order_id \in DOMAIN m.orders
  THEN [m |-> m, kind |-> "existing", order |-> NewOrder(NoOrderId, t)]
  ELSE IF payload.items = NotAList
  THEN [m |-> m, kind |-> "error", order |-> NewOrder(NoOrderId, t)]
  ELSE
    LET st == ExpandItems(payload.items, payload.order_id, t,
                [order |-> NewOrder(payload.order_id, t),
                 products |-> m.products, hp |-> m.hp,
                 counter |-> 1, ok |-> TRUE])
        m1 == [m EXCEPT !.products = st.products, !.hp = st.hp]
    IN [m |-> m1, kind |-> IF st.ok THEN "built" ELSE "error", order |-> st.order]

\* line 242: self.orders[order_id] = order
StoreOrder(m, order) ==
  [m EXCEPT !.ho = Append(@, order),
            !.orders = Put(@, order.order_id, Len(m.ho) + 1)]

\* line 243: self.active_order_ids.add(order_id)
AddActive(m, order_id) == [m EXCEPT !.active = @ \cup {order_id}]

\* OrderManager.create_order_from_payload as a whole: the new memory and the
\* reference it returns (NoRef for None).
CreateOrderFromPayload(m, payload, t) ==
  LET b == BuildOrder(m, payload, t)
  IN CASE b.kind = "existing" -> [m |-> b.m, ret |-> m.orders[payload.order_id]]
       [] b.kind = "built" ->
            LET m2 == AddActive(StoreOrder(b.m, b.order), payload.order_id)
            IN [m |-> m2, ret |-> m2.orders[payload.order_id]]
       [] OTHER -> [m |-> b.m, ret |-> NoRef]

\* An update that stores the vehicle argument as given, None included.
UpdateStatusClearing(m, product_id, new_status, location, agv_id, t) ==
  IF product_id \notin DOMAIN m.products THEN m
  ELSE
    LET r == m.products[product_id]
        p0 == m.hp[r]
        p1 == [p0 EXCEPT !.status = new_status,
                         !.current_location = IF location # NoneVal THEN location ELSE @,
                         !.assigned_agv = agv_id]
        p2 == AddProcessingStep(p1, p1.current_location,
                                <<p0.status, new_status>>, t)
        p3 == IF new_status = IN_WAREHOUSE
              THEN [p2 EXCEPT !.completion_time = t] ELSE p2
    IN [m EXCEPT !.hp[r] = p3]

\* OrderManager.update_product_status on the memory; location and agv_id are
\* NoneVal when not given.
UpdateStatus(m, product_id, new_status, location, agv_id, t) ==
  IF product_id \notin DOMAIN m.products THEN m
  ELSE
    LET r == m.products[product_id]
        p0 == m.hp[r]
        old_status == p0.status
        p1 == [p0 EXCEPT !.status = new_status,
                         !.current_location = IF location # NoneVal THEN location ELSE @,
                         !.assigned_agv = IF agv_id # NoneVal THEN agv_id ELSE @]
        p2 == AddProcessingStep(p1, p1.current_location,
                                <<old_status, new_status>>, t)
        p3 == IF new_status = IN_WAREHOUSE
              THEN [p2 EXCEPT !.completion_time = t] ELSE p2
    IN [m EXCEPT !.hp[r] = p3]

RECURSIVE AssignAll(_, _, _)
AssignAll(order, product_ids, line_id) ==
  IF product_ids = <<>> THEN order
  ELSE AssignAll(AssignProductToLine(order, Head(product_ids), line_id),
                 Tail(product_ids), line_id)

ProductIdsOf(refs, hp) == [i \in 1..Len(refs) |-> hp[refs[i]].product_id]

\* OrderManager.assign_order_to_line with product_ids given.
AssignToLine(m, order_id, line_id, product_ids) ==
  IF order_id \notin DOMAIN m.orders THEN m
  ELSE LET r == m.orders[order_id]
       IN [m EXCEPT !.ho[r] = AssignAll(m.ho[r], product_ids, line_id)]

\* OrderManager.assign_order_to_line with product_ids = None: all pending
\* products of the order.
AssignPendingToLine(m, order_id, line_id) ==
  IF order_id \notin DOMAIN m.orders THEN m
  ELSE AssignToLine(m, order_id, line_id,
         ProductIdsOf(GetPendingProducts(m.ho[m.orders[order_id]], m.hp), m.hp))

\* The body of the loop of OrderManager.complete_order_check for one order id.
CheckOne(m, order_id) ==
  LET r == m.orders[order_id]
  IN IF IsCompleted(m.ho[r], m.hp)
     THEN [m EXCEPT !.ho[r].status = O_COMPLETED, !.active = @ \ {order_id}]
     ELSE m

RECURSIVE CheckAll(_, _)
CheckAll(m, ids) ==
  IF ids = {} THEN m
  ELSE LET o == CHOOSE x \in ids : TRUE
       IN CheckAll(CheckOne(m, o), ids \ {o})

\* OrderManager.complete_order_check: "for order_id in list(active_order_ids)"
CompleteCheck(m) == CheckAll(m, m.active)

\* OrderManager.get_active_orders: references of the active, not completed orders.
GetActiveOrders(m) ==
  {m.orders[o] : o \in {x \in DOMAIN m.orders :
                          x \in m.active /\ ~IsCompleted(m.ho[m.orders[x]], m.hp)}}

\* The references of the stored orders, in the order of self.orders.values().
OrderValues(m) == SelectSeq([i \in 1..Len(m.ho) |-> i],
                            LAMBDA r : m.ho[r].order_id \in DOMAIN m.orders
                                       /\ m.orders[m.ho[r].order_id] = r)

\* get_products_needing_transport lines 347-348: the products the active
\* orders list under line_id, order after order.
RECURSIVE LineProducts(_, _, _)
LineProducts(m, refs, line_id) ==
  IF refs = <<>> THEN <<>>
  ELSE (IF Head(refs) \in GetActiveOrders(m)
        THEN GetProductsForLine(m.ho[Head(refs)], line_id, m.hp) ELSE <<>>)
       \o LineProducts(m, Tail(refs), line_id)

\* A transport filter that does not look at the assigned vehicle.
NeedsTransportAnyAgv(p) == p.status \in {PENDING, AT_QUALITY_CHECK}

\* get_products_needing_transport lines 353-357: the filter
NeedsTransport(p) ==
  p.status \in {PENDING, AT_QUALITY_CHECK} /\ p.assigned_agv = NoneVal

\* OrderManager.get_products_needing_transport: the list of Product references.
GetProductsNeedingTransport(m, line_id) ==
  SelectSeq(LineProducts(m, OrderValues(m), line_id),
            LAMBDA r : NeedsTransport(m.hp[r]))

\* ------------------------------------------------------- SharedOrderManager
\* A rotation that starts one slot late.
OffByOneLine(counter) ==
  available_lines[((counter + 1) % Len(available_lines)) + 1]

\* SharedOrderManager._get_next_assignment_line: the line returned.
GetNextAssignmentLine(counter) ==
  available_lines[(counter % Len(available_lines)) + 1]

\* ... and the counter it leaves.
NextCounter(counter) == counter + 1

\* process_order lines 58-65 on the Order that create returned: the memory,
\* the counter and the selection history after the assignment.
AssignStep(m, ref, order_id, counter, sel) ==
  LET prods == GetPendingProducts(m.ho[ref], m.hp)
  IN IF prods # <<>>
     THEN LET line == GetNextAssignmentLine(counter)
          IN [m |-> AssignToLine(m, order_id, line, ProductIdsOf(prods, m.hp)),
              counter |-> NextCounter(counter),
              sel |-> Append(sel, <<order_id, line>>)]
     ELSE [m |-> m, counter |-> counter, sel |-> sel]

SetMem(m) ==
  /\ orders' = m.orders
  /\ products' = m.products
  /\ active_order_ids' = m.active
  /\ heapP' = m.hp
  /\ heapO' = m.ho

\* A payload that create_order_from_payload can expand without an exception.
WellFormed(payload) ==
  /\ payload.order_id # NoOrderId
  /\ payload.items # NotAList
  /\ BadItem \notin Range(payload.items)

\* What a finished process_order call is remembered by.
Result(payload, ret, fresh) ==
  [order_id |-> payload.order_id, wellformed |-> WellFormed(payload),
   ret |-> ret, fresh |-> fresh]

\* No call finished yet.
NoResult == [order_id |-> NoOrderId, wellformed |-> FALSE, ret |-> NoRef, fresh |-> FALSE]

threadVars == <<assignment_lock, pc, local>>
sharedVars == <<processed_orders, line_assignment_counter, selected, returned>>
memVars == <<orders, products, active_order_ids, heapP, heapO>>

Threads == 1..NThreads

NoLocal == [payload |-> [order_id |-> NoOrderId, items |-> <<>>],
            order |-> NewOrder(NoOrderId, NoTime), ref |-> NoRef]

\* No event (the consumer's hand is empty).
NoEvent == [id |-> 0, type |-> "none", severity |-> "none"]

\* complete_order_check not running: no snapshot, no order in hand.
CcIdle == [pc |-> "idle", snapshot |-> {}, order_id |-> NoOrderId, raised |-> FALSE]

\* LineCommander.__init__ / FactoryAgentManager.__init__
LcInit ==
  [decision_queue |-> <<>>,   \* the asyncio.Queue, oldest event first
   puts |-> 0,                \* events created so far (the next event's identity)
   dropped |-> <<>>,          \* history: ids of the events dropped on overflow
   taken |-> NoEvent,         \* the event the reactive consumer holds
   rpc |-> "wait",            \* the reactive consumer: wait, process or defer
   is_processing |-> FALSE,   \* FactoryAgentManager.is_processing
   handled |-> <<>>,          \* history: ids handed to reactive processing
   deferred |-> {},           \* history: ids re-enqueued by the consumer
   consumed |-> FALSE,        \* history: the consumer has taken an event
   published |-> <<>>,        \* the commands published for the last oracle output
   ppc |-> "sleep",           \* the planned loop: sleep (between cycles) or oracle
   mgr |-> "none",            \* which class executes commands: "line" or "factory"
   command_history |-> <<>>,  \* command_history / AgentCommandHistory.commands
   sent |-> <<>>,             \* the commands published on the command topic
   exec |-> [task \in {"planned", "reactive"} |->
               [commands |-> <<>>, running |-> FALSE]],
                              \* per task: the commands its execution loop has left
   is_running |-> TRUE,       \* the running flag, set when the loops were started
   is_connected |-> TRUE,     \* MQTTListenerManager.is_connected, set by start_listening
   disconnects |-> 0,         \* history: completed mqtt_client.disconnect() calls
   stop_calls |-> 0,          \* history: calls of stop()
   factory |-> [is_running |-> TRUE, shutdown_event |-> FALSE],
                              \* MultiLineFactoryManager, its lines started
   graph_events |-> <<>>,     \* GraphState["events"] kept by run_line_graph
   second |-> "none"]         \* a second caller of process_orders_cycle: none or oracle

\* The class SharedOrderManager before its first construction (_instance is
\* None), with the callers that will construct it. The attributes of the
\* instance are the variables above; the other specifications follow them
\* on an instance already constructed.
SomInit ==
  [instance |-> FALSE,        \* _instance is not None
   initialized |-> FALSE,     \* _instance._initialized
   inits |-> 0,               \* history: executions of the body of __init__
   ctor |-> [t \in Threads |-> "idle"]]
                              \* per caller: idle, init (entering __init__),
                              \* body (past the test) or done

\* The devices whose telemetry is followed, one per category.
DeviceIds ==
  [stations |-> {"StationA"}, agvs |-> {"AGV_1"}, conveyors |-> {"Conveyor_CQ"}]

\* A dict that has no entry for a device.
NoRecord == [status |-> Absent]

\* MQTTListenerManager.__init__: factory_state refers to three dicts and a
\* list, which are objects of their own (heap, by reference).
MqInit ==
  [factory_state |-> [stations |-> 1, agvs |-> 2, conveyors |-> 3, alerts |-> 4],
   heap |-> <<[id \in DeviceIds.stations |-> NoRecord],
              [id \in DeviceIds.agvs |-> NoRecord],
              [id \in DeviceIds.conveyors |-> NoRecord],
              <<>>>>,
   alerts_seen |-> 0,           \* alerts received so far (the next alert's identity)
   snapshot |-> [taken |-> FALSE,
                 top |-> [stations |-> 1, agvs |-> 2, conveyors |-> 3, alerts |-> 4]],
                                \* the dict a reader got from get_factory_state
   invoked |-> <<>>]            \* history: listener calls of the last message

Init ==
  /\ orders = EmptyMap
  /\ products = EmptyMap
  /\ active_order_ids = {}
  /\ heapP = <<>>
  /\ heapO = <<>>
  /\ processed_orders = {}
  /\ line_assignment_counter = 0
  /\ assignment_lock = 0
  /\ pc = [t \in Threads |-> "idle"]
  /\ local = [t \in Threads |-> NoLocal]
  /\ now = 1
  /\ selected = <<>>
  /\ returned = NoResult
  /\ lastCall = [op |-> "init"]
  /\ visits = [s \in {"StationB", "StationC"} |-> 0]
  /\ cc = CcIdle
  /\ lc = LcInit
  /\ mq = MqInit
  /\ som = SomInit

\* ------------------------------------------ sequential directory operations
\* SharedOrderManager.process_order, run to completion by one caller.
ProcessOrder(payload) ==
  /\ IF payload.order_id = NoOrderId
     THEN /\ UNCHANGED <<memVars, processed_orders, line_assignment_counter, selected, now>>
          /\ returned' = Result(payload, NoRef, FALSE)
          /\ lastCall' = [op |-> "process_order", payload |-> payload,
                          ret |-> NoRef, fresh |-> FALSE]
     ELSE IF payload.order_id \in processed_orders
     THEN LET ret == IF payload.order_id \in DOMAIN orders
                     THEN orders[payload.order_id] ELSE NoRef
          IN /\ UNCHANGED <<memVars, processed_orders, line_assignment_counter, selected, now>>
             /\ returned' = Result(payload, ret, FALSE)
             /\ lastCall' = [op |-> "process_order", payload |-> payload,
                             ret |-> ret, fresh |-> FALSE]
     ELSE LET c == CreateOrderFromPayload(Mem, payload, now)
          IN IF c.ret = NoRef
             THEN /\ SetMem(c.m)
                  /\ now' = now + 1
                  /\ UNCHANGED <<processed_orders, line_assignment_counter, selected>>
                  /\ returned' = Result(payload, NoRef, FALSE)
                  /\ lastCall' = [op |-> "process_order", payload |-> payload,
                                  ret |-> NoRef, fresh |-> FALSE]
             ELSE LET a == AssignStep(c.m, c.ret, payload.order_id,
                                      line_assignment_counter, selected)
                  IN /\ SetMem(a.m)
                     /\ now' = now + 1
                     /\ line_assignment_counter' = a.counter
                     /\ selected' = a.sel
                     /\ processed_orders' = processed_orders \cup {payload.order_id}
                     /\ returned' = Result(payload, c.ret, TRUE)
                     /\ lastCall' = [op |-> "process_order", payload |-> payload,
                                     ret |-> c.ret, fresh |-> TRUE]
  /\ UNCHANGED <<threadVars, visits, cc, lc, mq, som>>

\* SharedOrderManager.update_product_status -> OrderManager.update_product_status
UpdateCall(product_id, new_status, location, agv_id) ==
  /\ SetMem(UpdateStatus(Mem, product_id, new_status, location, agv_id, now))
  /\ now' = IF product_id \in DOMAIN products THEN now + 1 ELSE now
  /\ lastCall' = [op |-> "update_product_status", product_id |-> product_id,
                  new_status |-> new_status, location |-> location,
                  agv_id |-> agv_id, known |-> product_id \in DOMAIN products]
  /\ UNCHANGED <<sharedVars, threadVars>>

UpdateProductStatus(product_id, new_status, location, agv_id) ==
  /\ UpdateCall(product_id, new_status, location, agv_id)
  /\ UNCHANGED <<visits, cc, lc, mq, som>>

\* OrderManager.assign_order_to_line called with product_ids = None
AssignOrderToLine(order_id, line_id) ==
  /\ SetMem(AssignPendingToLine(Mem, order_id, line_id))
  /\ lastCall' = [op |-> "assign_order_to_line", order_id |-> order_id,
                  line_id |-> line_id]
  /\ UNCHANGED <<sharedVars, threadVars, now, visits, cc, lc, mq, som>>

\* SharedOrderManager.complete_order_check -> OrderManager.complete_order_check
CompleteOrderCheck ==
  /\ SetMem(CompleteCheck(Mem))
  /\ lastCall' = [op |-> "complete_order_check"]
  /\ UNCHANGED <<sharedVars, threadVars, now, visits, cc, lc, mq, som>>

\* The statuses, locations and vehicles offered to update_product_status.
UpdStatuses == {AT_STATION_A, IN_WAREHOUSE, FAILED_QC}
UpdLocations == {NoneVal}
UpdAgvs == {NoneVal, "AGV_1"}

Next ==
  \/ \E payload \in Payloads : now < MaxClock /\ ProcessOrder(payload)
  \/ \E product_id \in DOMAIN products \cup {UnknownProductId},
        new_status \in UpdStatuses, location \in UpdLocations, agv_id \in UpdAgvs :
       now < MaxClock /\ UpdateProductStatus(product_id, new_status, location, agv_id)
  \/ CompleteOrderCheck

Spec == Init /\ [][Next]_vars

\* The directory driven by process_order and assign_order_to_line alone.
NextAssign ==
  \/ \E payload \in Payloads : now < MaxClock /\ ProcessOrder(payload)
  \/ \E order_id \in OrderIds, line_id \in Lines : AssignOrderToLine(order_id, line_id)

SpecAssign == Init /\ [][NextAssign]_vars


\* The directory offered well-formed and malformed order payloads: items whose
\* dict lacks product_type or quantity, items that is not a list, no order_id.
RejectPayloads ==
  { [order_id |-> OidA,  items |-> <<Item(<<"P1">>, 1)>>],
    [order_id |-> OidBA, items |-> <<Item(<<"P2">>, 2)>>],
    [order_id |-> OidA,  items |-> NotAList],
    [order_id |-> OidBA, items |-> <<[quantity |-> 1]>>],
    [order_id |-> OidBA, items |-> <<Item(<<"P1">>, 1), [product_type |-> <<"P3">>]>>],
    [order_id |-> NoOrderId, items |-> <<Item(<<"P1">>, 1)>>] }

NextReject ==
  \E payload \in RejectPayloads : now < MaxClock /\ ProcessOrder(payload)

SpecReject == Init /\ [][NextReject]_vars

\* SharedOrderManager.get_products_for_line -> OrderManager.get_products_needing_transport
GetProductsNeedingTransportCall(line_id) ==
  /\ lastCall' = [op |-> "get_products_needing_transport", line_id |-> line_id,
                  ret |-> GetProductsNeedingTransport(Mem, line_id)]
  /\ UNCHANGED <<memVars, sharedVars, threadVars, now, visits, cc, lc, mq, som>>

\* The directory as a line's transport planner uses it: orders arrive, products
\* are reported at the quality check, in the warehouse or back at a station,
\* with or without a vehicle, orders are completed, and lines ask for work.
TransportPayloads ==
  { [order_id |-> OidA,  items |-> <<Item(<<"P1">>, 1), Item(<<"P3">>, 1)>>],
    [order_id |-> OidBA, items |-> <<Item(<<"P2">>, 1)>>] }

TransportStatuses == {AT_QUALITY_CHECK, AT_STATION_A, IN_WAREHOUSE}

NextTransport ==
  \/ \E payload \in TransportPayloads : now < MaxClock /\ ProcessOrder(payload)
  \/ \E product_id \in DOMAIN products, new_status \in TransportStatuses,
        agv_id \in UpdAgvs :
       now < MaxClock /\ UpdateProductStatus(product_id, new_status, NoneVal, agv_id)
  \/ CompleteOrderCheck
  \/ \E line_id \in Lines : GetProductsNeedingTransportCall(line_id)

SpecTransport == Init /\ [][NextTransport]_vars

\* ------------------------------------------- concurrent process_order calls
OidC == <<"c">>
OidD == <<"d">>

\* The payloads the concurrent callers send.
ConcPayloads ==
  { [order_id |-> OidA,  items |-> <<Item(<<"P1">>, 1)>>],
    [order_id |-> OidA,  items |-> NotAList],
    [order_id |-> OidBA, items |-> <<Item(<<"P2">>, 2)>>],
    [order_id |-> OidC,  items |-> <<Item(<<"P3">>, 1)>>],
    [order_id |-> OidC,  items |-> <<>>],
    [order_id |-> OidD,  items |-> <<Item(<<"P1">>, 1)>>],
    [order_id |-> NoOrderId, items |-> <<>>] }

\* A lock that never makes a caller wait.
NoLock(lock) == TRUE

\* threading.Lock: acquire succeeds only while nobody holds the lock.
LockFree(lock) == lock = 0

\* lines 42-44: read order_id; a payload without one returns None.
PoCall(t, payload) ==
  /\ pc[t] = "idle"
  /\ IF payload.order_id = NoOrderId
     THEN /\ returned' = Result(payload, NoRef, FALSE)
          /\ UNCHANGED <<pc, local>>
     ELSE /\ pc' = [pc EXCEPT ![t] = "acquire"]
          /\ local' = [local EXCEPT ![t] = [NoLocal EXCEPT !.payload = payload]]
          /\ UNCHANGED returned
  /\ UNCHANGED <<memVars, processed_orders, line_assignment_counter, selected,
                 assignment_lock, now, lastCall, visits, cc, lc, mq, som>>

\* line 46: with self._assignment_lock
PoAcquire(t) ==
  /\ pc[t] = "acquire"
  /\ LockFree(assignment_lock)
  /\ assignment_lock' = t
  /\ pc' = [pc EXCEPT ![t] = "check"]
  /\ UNCHANGED <<memVars, sharedVars, local, now, lastCall, visits, cc, lc, mq, som>>

\* Leaving the with block, with the call's result.
Leave(t, ret, fresh) ==
  /\ assignment_lock' = 0
  /\ pc' = [pc EXCEPT ![t] = "idle"]
  /\ local' = [local EXCEPT ![t] = NoLocal]
  /\ returned' = Result(local[t].payload, ret, fresh)

\* lines 48-50: the processed check
PoCheck(t) ==
  /\ pc[t] = "check"
  /\ LET oid == local[t].payload.order_id
     IN IF oid \in processed_orders
        THEN Leave(t, IF oid \in DOMAIN orders THEN orders[oid] ELSE NoRef, FALSE)
        ELSE /\ pc' = [pc EXCEPT ![t] = "create"]
             /\ UNCHANGED <<assignment_lock, local, returned>>
  /\ UNCHANGED <<memVars, processed_orders, line_assignment_counter, selected,
                 now, lastCall, visits, cc, lc, mq, som>>

\* line 53, create_order_from_payload lines 197-239: the checks and the item loop
PoCreate(t) ==
  /\ pc[t] = "create"
  /\ LET b == BuildOrder(Mem, local[t].payload, now)
     IN /\ SetMem(b.m)
        /\ now' = IF b.kind = "built" THEN now + 1 ELSE now
        /\ CASE b.kind = "built" ->
                  /\ pc' = [pc EXCEPT ![t] = "store"]
                  /\ local' = [local EXCEPT ![t].order = b.order]
                  /\ UNCHANGED <<assignment_lock, returned>>
             [] b.kind = "existing" ->
                  /\ pc' = [pc EXCEPT ![t] = "assign"]
                  /\ local' = [local EXCEPT ![t].ref = orders[local[t].payload.order_id]]
                  /\ UNCHANGED <<assignment_lock, returned>>
             [] OTHER -> Leave(t, NoRef, FALSE)
  /\ UNCHANGED <<processed_orders, line_assignment_counter, selected, lastCall, visits, cc, lc, mq, som>>

\* create_order_from_payload line 242: self.orders[order_id] = order
PoStore(t) ==
  /\ pc[t] = "store"
  /\ LET m == StoreOrder(Mem, local[t].order)
     IN /\ SetMem(m)
        /\ local' = [local EXCEPT ![t].ref = m.orders[local[t].order.order_id],
                                  ![t].order = NoLocal.order]
  /\ pc' = [pc EXCEPT ![t] = "active"]
  /\ UNCHANGED <<sharedVars, assignment_lock, now, lastCall, visits, cc, lc, mq, som>>

\* create_order_from_payload line 243: self.active_order_ids.add(order_id)
PoActive(t) ==
  /\ pc[t] = "active"
  /\ SetMem(AddActive(Mem, local[t].payload.order_id))
  /\ pc' = [pc EXCEPT ![t] = "assign"]
  /\ UNCHANGED <<sharedVars, assignment_lock, local, now, lastCall, visits, cc, lc, mq, som>>

\* lines 58-65: round-robin assignment of the pending products
PoAssign(t) ==
  /\ pc[t] = "assign"
  /\ LET a == AssignStep(Mem, local[t].ref, local[t].payload.order_id,
                         line_assignment_counter, selected)
     IN /\ SetMem(a.m)
        /\ line_assignment_counter' = a.counter
        /\ selected' = a.sel
  /\ pc' = [pc EXCEPT ![t] = "mark"]
  /\ UNCHANGED <<processed_orders, returned, assignment_lock, local, now, lastCall, visits, cc, lc, mq, som>>

\* lines 71-72: mark processed, return the order
PoMark(t) ==
  /\ pc[t] = "mark"
  /\ processed_orders' = processed_orders \cup {local[t].payload.order_id}
  /\ Leave(t, local[t].ref, TRUE)
  /\ UNCHANGED <<memVars, line_assignment_counter, selected, now, lastCall, visits, cc, lc, mq, som>>

NextConc ==
  \E t \in Threads :
    \/ \E payload \in ConcPayloads : PoCall(t, payload)
    \/ PoAcquire(t)
    \/ PoCheck(t)
    \/ PoCreate(t)
    \/ PoStore(t)
    \/ PoActive(t)
    \/ PoAssign(t)
    \/ PoMark(t)

SpecConc == Init /\ [][NextConc]_vars

\* ------------------- complete_order_check interleaved with the other callers
\* complete_order_check takes no lock: its statements interleave with those of
\* process_order and with update_product_status calls of other threads.
\* line 364: for order_id in list(self.active_order_ids) -- the snapshot
CcSnapshot ==
  /\ cc.pc = "idle"
  /\ cc' = [CcIdle EXCEPT !.pc = "loop", !.snapshot = active_order_ids]
  /\ lastCall' = [op |-> "complete_order_check"]
  /\ UNCHANGED <<memVars, sharedVars, threadVars, now, visits, lc, mq, som>>

\* lines 364-366: take the next order id of the snapshot, look the order up
\* (KeyError if it is not stored) and evaluate is_completed
CcTest ==
  /\ cc.pc = "loop"
  /\ IF cc.snapshot = {}
     THEN cc' = CcIdle
     ELSE \E order_id \in cc.snapshot :
            IF order_id \notin DOMAIN orders
            THEN cc' = [CcIdle EXCEPT !.raised = TRUE]
            ELSE IF IsCompleted(heapO[orders[order_id]], heapP)
            THEN cc' = [cc EXCEPT !.pc = "mark", !.order_id = order_id,
                                  !.snapshot = @ \ {order_id}]
            ELSE cc' = [cc EXCEPT !.snapshot = @ \ {order_id}]
  /\ UNCHANGED <<memVars, sharedVars, threadVars, now, lastCall, visits, lc, mq, som>>

\* line 367: order.status = OrderStatus.COMPLETED
CcMark ==
  /\ cc.pc = "mark"
  /\ heapO' = [heapO EXCEPT ![orders[cc.order_id]].status = O_COMPLETED]
  /\ cc' = [cc EXCEPT !.pc = "discard"]
  /\ UNCHANGED <<orders, products, active_order_ids, heapP, sharedVars,
                 threadVars, now, lastCall, visits, lc, mq, som>>

\* line 368: self.active_order_ids.discard(order_id)
CcDiscard ==
  /\ cc.pc = "discard"
  /\ active_order_ids' = active_order_ids \ {cc.order_id}
  /\ cc' = [cc EXCEPT !.pc = "loop", !.order_id = NoOrderId]
  /\ UNCHANGED <<orders, products, heapP, heapO, sharedVars,
                 threadVars, now, lastCall, visits, lc, mq, som>>

\* The payloads and status reports of the interleaved callers.
CheckPayloads ==
  { [order_id |-> OidA, items |-> <<Item(<<"P1">>, 1)>>],
    [order_id |-> OidC, items |-> <<Item(<<"P1">>, 0)>>] }

CheckStatuses == {IN_WAREHOUSE, AT_STATION_A}

NextCheck ==
  \/ \E t \in Threads :
       \/ \E payload \in CheckPayloads : PoCall(t, payload)
       \/ PoAcquire(t)
       \/ PoCheck(t)
       \/ PoCreate(t)
       \/ PoStore(t)
       \/ PoActive(t)
       \/ PoAssign(t)
       \/ PoMark(t)
  \/ \E product_id \in DOMAIN products, new_status \in CheckStatuses :
       now < MaxClock /\ UpdateProductStatus(product_id, new_status, NoneVal, NoneVal)
  \/ CcSnapshot
  \/ CcTest
  \/ CcMark
  \/ CcDiscard

SpecCheck == Init /\ [][NextCheck]_vars

\* ------------------------------------------- the decision event queue
\* The events the queue can hold before the model stops creating new ones.
MaxEvents == maxsize + 2

Severities == {"critical", "high", "medium", "low"}

dirVars == <<memVars, sharedVars, threadVars, now, visits, cc, mq, som>>

\* A queue that makes room by discarding its oldest event.
PutDropOldest(queue, event) ==
  IF Len(queue) >= maxsize
  THEN [queue |-> Append(Tail(queue), event), full |-> FALSE]
  ELSE [queue |-> Append(queue, event), full |-> FALSE]

\* asyncio.Queue.put_nowait: QueueFull when qsize() >= maxsize, else append.
PutNowait(queue, event) ==
  IF Len(queue) >= maxsize
  THEN [queue |-> queue, full |-> TRUE]
  ELSE [queue |-> Append(queue, event), full |-> FALSE]

\* A get that leaves the event in the queue.
QueuePeek(queue) == [event |-> Head(queue), queue |-> queue]

\* asyncio.Queue.get on a non-empty queue: first in, first out.
QueueGet(queue) == [event |-> Head(queue), queue |-> Tail(queue)]

\* LineCommander._queue_decision_event / FactoryAgentManager._queue_critical_event:
\* build the event, put_nowait, QueueFull caught and logged.
QueueDecisionEvent(l, event_type, severity) ==
  LET event == [id |-> l.puts + 1, type |-> event_type, severity |-> severity]
      r == PutNowait(l.decision_queue, event)
  IN [l EXCEPT !.puts = @ + 1,
               !.decision_queue = r.queue,
               !.dropped = IF r.full THEN Append(@, event.id) ELSE @]

\* LineCommander._handle_alerts: one factory_alert event with the alert's severity.
HandleAlerts(severity) ==
  /\ lc.puts < MaxEvents
  /\ lc' = QueueDecisionEvent(lc, "factory_alert", severity)
  /\ lastCall' = [op |-> "alerts", severity |-> severity,
                  before |-> lc.decision_queue]
  /\ UNCHANGED dirVars

\* A consumer that hands every event it gets to processing.
ReactiveGetUnguarded ==
  /\ lc.rpc = "wait"
  /\ ~lc.exec["reactive"].running
  /\ lc.decision_queue # <<>>
  /\ LET r == QueueGet(lc.decision_queue)
     IN lc' = [lc EXCEPT !.decision_queue = r.queue,
                         !.taken = r.event,
                         !.consumed = TRUE,
                         !.rpc = "process"]
  /\ lastCall' = [op |-> "get", before |-> lc.decision_queue]
  /\ UNCHANGED dirVars

\* The reactive consumer's "await queue.get()" returning an event;
\* FactoryAgentManager then tests is_processing before its next await.
ReactiveGet ==
  /\ lc.rpc = "wait"
  /\ ~lc.exec["reactive"].running
  /\ lc.decision_queue # <<>>
  /\ LET r == QueueGet(lc.decision_queue)
     IN lc' = [lc EXCEPT !.decision_queue = r.queue,
                         !.taken = r.event,
                         !.consumed = TRUE,
                         !.rpc = IF lc.is_processing THEN "defer" ELSE "process"]
  /\ lastCall' = [op |-> "get", before |-> lc.decision_queue]
  /\ UNCHANGED dirVars

\* LineCommander._process_reactive_event / the agent run of
\* FactoryAgentManager._process_critical_events: the event is processed.
ProcessReactiveEvent ==
  /\ lc.rpc = "process"
  /\ lc' = [lc EXCEPT !.handled = Append(@, lc.taken.id),
                      !.taken = NoEvent,
                      !.rpc = "wait"]
  /\ lastCall' = [op |-> "process_reactive_event"]
  /\ UNCHANGED dirVars

\* FactoryAgentManager._process_critical_events lines 499-504: after the sleep
\* the deferred event is put back, or dropped if the queue is full by then.
DeferEvent ==
  /\ lc.rpc = "defer"
  /\ LET r == PutNowait(lc.decision_queue, lc.taken)
     IN lc' = [lc EXCEPT !.decision_queue = r.queue,
                         !.dropped = IF r.full THEN Append(@, lc.taken.id) ELSE @,
                         !.deferred = IF r.full THEN @ ELSE @ \cup {lc.taken.id},
                         !.taken = NoEvent,
                         !.rpc = "wait"]
  /\ lastCall' = [op |-> "defer"]
  /\ UNCHANGED dirVars

\* FactoryAgentManager.process_orders_cycle starts (line 594) or ends (line 624).
SetProcessing(b) ==
  /\ lc.is_processing # b
  /\ lc' = [lc EXCEPT !.is_processing = b]
  /\ lastCall' = [op |-> "process_orders_cycle"]
  /\ UNCHANGED dirVars

NextQueue ==
  \/ \E severity \in Severities : HandleAlerts(severity)
  \/ ReactiveGet
  \/ ProcessReactiveEvent
  \/ DeferEvent
  \/ \E b \in BOOLEAN : SetProcessing(b)

SpecQueue == Init /\ [][NextQueue]_vars

\* ------------------------------------------- telemetry ingestion
\* A JSON field that holds a list: absent from the message, null, or a list
\* of len elements.
Missing == [kind |-> "missing", len |-> 0]
Null == [kind |-> "null", len |-> 0]
List(n) == [kind |-> "list", len |-> n]

\* dict.get(key, default): the default only when the key is absent.
GetOr(field, default) == IF field.kind = "missing" THEN default ELSE field

\* The outcome of a handler's classification: the events to enqueue, or an
\* exception raised before any event was enqueued (len(None)).
Raised == [raised |-> TRUE, events |-> <<>>]
Events(evs) == [raised |-> FALSE, events |-> evs]
Ev(type, severity) == [type |-> type, severity |-> severity]

\* data.get("status", "unknown")
StatusOr(raw) == IF raw.status = Absent THEN "unknown" ELSE raw.status

\* MQTTListenerManager._on_station_status: parsed_data
ParseStation(raw) ==
  [status |-> StatusOr(raw),
   buffer |-> GetOr(raw.buffer, List(0)),
   output_buffer |-> GetOr(raw.output_buffer, List(0))]

\* LineCommander._handle_station_status
ClassifyStation(station_id, data) ==
  LET buffer == GetOr(data.buffer, List(0))
      output_buffer == GetOr(data.output_buffer, List(0))
  IN IF buffer.kind = "null" \/ output_buffer.kind = "null" THEN Raised
     ELSE IF data.status = "blocked"
     THEN Events(<<Ev("station_blocked", "critical")>>)
     ELSE IF station_id = "QualityCheck" /\ output_buffer.len > 0
     THEN Events(<<Ev("finished_products_ready", "high")>>)
     ELSE IF station_id = "StationA" /\ data.status = "idle" /\ buffer.len = 0
     THEN Events(<<Ev("station_ready_for_input", "medium")>>)
     ELSE Events(<<>>)

\* MQTTListenerManager._on_agv_status: parsed_data
ParseAgv(raw) ==
  [status |-> StatusOr(raw),
   battery_level |-> raw.battery_level,
   payload |-> GetOr(raw.payload, List(0))]

\* LineCommander._handle_agv_status; len(payload) is evaluated only after
\* the status == "idle" test of a branch succeeded.
ClassifyAgv(agv_id, data) ==
  LET status == data.status
      battery == data.battery_level
      payload == GetOr(data.payload, List(0))
  IN IF battery < 20 /\ status # "charging"
     THEN Events(<<Ev("agv_critical_battery", "critical")>>)
     ELSE IF status # "idle" THEN Events(<<>>)
     ELSE IF payload.kind = "null" THEN Raised
     ELSE IF payload.len > 0
     THEN Events(<<Ev("agv_loaded_idle", "high")>>)
     ELSE IF battery < 40
     THEN Events(<<Ev("agv_needs_charging", "medium")>>)
     ELSE IF battery > 40
     THEN Events(<<Ev("agv_available", "low")>>)
     ELSE Events(<<>>)

\* MQTTListenerManager._on_conveyor_status: parsed_data
ParseConveyor(raw) ==
  [status |-> StatusOr(raw),
   buffer |-> GetOr(raw.buffer, List(0)),
   upper_buffer |-> GetOr(raw.upper_buffer, List(0)),
   lower_buffer |-> GetOr(raw.lower_buffer, List(0))]

\* A conveyor classifier whose two rules are tested independently.
ClassifyConveyorAll(conveyor_id, data) ==
  LET buffer == GetOr(data.buffer, List(0))
      upper_buffer == GetOr(data.upper_buffer, List(0))
      lower_buffer == GetOr(data.lower_buffer, List(0))
  IN IF buffer.kind = "null" \/ upper_buffer.kind = "null"
          \/ lower_buffer.kind = "null" THEN Raised
     ELSE Events(
       (IF data.status = "blocked" \/ buffer.len > 5
        THEN <<Ev("conveyor_congestion", "high")>> ELSE <<>>)
       \o (IF conveyor_id = "Conveyor_CQ"
              /\ (upper_buffer.len > 0 \/ lower_buffer.len > 0)
           THEN <<Ev("p3_products_ready_for_second_processing", "high")>>
           ELSE <<>>))

\* LineCommander._handle_conveyor_status
ClassifyConveyor(conveyor_id, data) ==
  LET buffer == GetOr(data.buffer, List(0))
      upper_buffer == GetOr(data.upper_buffer, List(0))
      lower_buffer == GetOr(data.lower_buffer, List(0))
  IN IF buffer.kind = "null" \/ upper_buffer.kind = "null"
          \/ lower_buffer.kind = "null" THEN Raised
     ELSE IF data.status = "blocked" \/ buffer.len > 5
     THEN Events(<<Ev("conveyor_congestion", "high")>>)
     ELSE IF conveyor_id = "Conveyor_CQ"
             /\ (upper_buffer.len > 0 \/ lower_buffer.len > 0)
     THEN Events(<<Ev("p3_products_ready_for_second_processing", "high")>>)
     ELSE Events(<<>>)

\* MQTTListenerManager._on_warehouse_status: parsed_data
ParseWarehouse(raw) == [buffer |-> GetOr(raw.buffer, List(0))]

\* LineCommander._handle_warehouse_status
ClassifyWarehouse(warehouse_id, data) ==
  LET buffer == GetOr(data.buffer, List(0))
  IN IF buffer.kind = "null" THEN Raised
     ELSE IF warehouse_id = "RawMaterial" /\ buffer.len > 0
     THEN Events(<<Ev("raw_materials_available", "high")>>)
     ELSE IF buffer.len > 0
     THEN Events(<<Ev("products_available", "medium")>>)
     ELSE Events(<<>>)

\* The handler's _queue_decision_event calls, in order.
RECURSIVE EnqueueAll(_, _)
EnqueueAll(l, evs) ==
  IF evs = <<>> THEN l
  ELSE EnqueueAll(QueueDecisionEvent(l, Head(evs).type, Head(evs).severity),
                  Tail(evs))

\* One ingestion call as LineCommander's registered handler sees it: the
\* listener parses the message and calls the handler inside try/except; an
\* exception of the handler is logged. (The listener's own snapshot and its
\* list of listeners are followed in the telemetry snapshot section.)
Ingest(op, id, raw, outcome) ==
  /\ lc.puts < MaxEvents
  /\ lc' = EnqueueAll(lc, outcome.events)
  /\ lastCall' = [op |-> op, id |-> id, raw |-> raw, raised |-> outcome.raised]
  /\ UNCHANGED dirVars

OnStationStatus(station_id, raw) ==
  Ingest("station_status", station_id, raw,
         ClassifyStation(station_id, ParseStation(raw)))

OnAgvStatus(agv_id, raw) ==
  Ingest("agv_status", agv_id, raw, ClassifyAgv(agv_id, ParseAgv(raw)))

OnConveyorStatus(conveyor_id, raw) ==
  Ingest("conveyor_status", conveyor_id, raw,
         ClassifyConveyor(conveyor_id, ParseConveyor(raw)))

OnWarehouseStatus(warehouse_id, raw) ==
  Ingest("warehouse_status", warehouse_id, raw,
         ClassifyWarehouse(warehouse_id, ParseWarehouse(raw)))

\* The telemetry messages offered.
WarehouseRaws == [buffer : {Missing, Null, List(0), List(2)}]
StationRaws ==
  [status : {"idle", "blocked"}, buffer : {Missing, Null, List(0)},
   output_buffer : {Null, List(0), List(1)}]
AgvRaws ==
  [status : {"idle", "charging", "moving"}, battery_level : {15, 20, 40, 50},
   payload : {Null, List(0), List(1)}]
ConveyorRaws ==
  [status : {"working", "blocked"}, buffer : {Null, List(0), List(6)},
   upper_buffer : {Null, List(0), List(1)}, lower_buffer : {Missing, List(1)}]

NextIngest ==
  \/ \E station_id \in {"StationA", "QualityCheck"},
        raw \in StationRaws : OnStationStatus(station_id, raw)
  \/ \E raw \in AgvRaws : OnAgvStatus("AGV_1", raw)
  \/ \E conveyor_id \in {"Conveyor_BC", "Conveyor_CQ"},
        raw \in ConveyorRaws : OnConveyorStatus(conveyor_id, raw)
  \/ \E warehouse_id \in {"RawMaterial", "Warehouse"},
        raw \in WarehouseRaws : OnWarehouseStatus(warehouse_id, raw)

SpecIngest == Init /\ [][NextIngest]_vars

\* The messages for which several rules of a category can match at once
\* (or the handler raises), every category in turn.
NextClassify ==
  \/ \E station_id \in {"StationA", "QualityCheck"},
        raw \in {r \in StationRaws : r.buffer = List(0)} :
       OnStationStatus(station_id, raw)
  \/ \E raw \in {r \in AgvRaws : r.status = "idle"} : OnAgvStatus("AGV_1", raw)
  \/ \E raw \in {r \in ConveyorRaws : r.lower_buffer = List(1) /\ r.buffer # Null} :
       OnConveyorStatus("Conveyor_CQ", raw)
  \/ \E warehouse_id \in {"RawMaterial", "Warehouse"},
        raw \in WarehouseRaws : OnWarehouseStatus(warehouse_id, raw)

SpecClassify == Init /\ [][NextClassify]_vars

\* ------------------------------------------- command validation and dispatch
valid_actions == {"move", "load", "unload", "charge"}
valid_agvs == {"AGV_1", "AGV_2"}
valid_points == {"P0", "P1", "P2", "P3", "P4", "P5", "P6", "P7", "P8", "P9"}

\* The value of params["target_level"]: absent, a JSON number, a JSON string,
\* a JSON boolean (an int for isinstance: true is 1) or NaN.
NoLevel == [kind |-> "absent", value |-> 0]
Number(n) == [kind |-> "number", value |-> n]
String(n) == [kind |-> "string", value |-> n]
Bool(n) == [kind |-> "bool", value |-> n]
NaN == [kind |-> "nan", value |-> 0]

\* A command of the oracle's output. params is "dict", "absent" or "null".
Command(action, target, params, target_point, target_level) ==
  [action |-> action, target |-> target, params |-> params,
   target_point |-> target_point, target_level |-> target_level]

\* _validate_command lines 910-920 for a params dict: target_level defaults
\* to 80; isinstance(target_level, (int, float)) and the two comparisons
\* (both False for NaN).
ValidTargetLevel(target_level) ==
  LET level == IF target_level.kind = "absent" THEN Number(80) ELSE target_level
  IN /\ level.kind \in {"number", "bool", "nan"}
     /\ level.kind = "nan" \/ (level.value >= 0 /\ level.value <= 100)

\* ProductFlowAgent._validate_command: "valid" (True), "invalid" (False) or
\* "raise" (params is null: None.get raises AttributeError).
ValidateCommand(command) ==
  IF command.action = Absent \/ command.target = Absent THEN "invalid"
  ELSE IF command.action \notin valid_actions THEN "invalid"
  ELSE IF command.target \notin valid_agvs THEN "invalid"
  ELSE IF command.action \in {"move", "charge"} /\ command.params = "null"
  THEN "raise"
  ELSE IF command.action = "move"
          /\ (command.params = "absent" \/ command.target_point \in {Absent, ""})
  THEN "invalid"
  ELSE IF command.action = "move" /\ command.target_point \notin valid_points
  THEN "invalid"
  ELSE IF command.action = "charge" /\ command.params = "dict"
          /\ ~ValidTargetLevel(command.target_level)
  THEN "invalid"
  ELSE "valid"

\* _parse_agent_output lines 807-823: keep the valid commands, the first one
\* per vehicle; st.raised when _validate_command raised.
RECURSIVE ValidateAll(_, _)
ValidateAll(commands, st) ==
  IF commands = <<>> THEN st
  ELSE LET cmd == Head(commands)
           v == ValidateCommand(cmd)
       IN IF v = "raise" THEN [st EXCEPT !.raised = TRUE]
          ELSE IF v = "valid" /\ cmd.target \notin st.used_agvs
          THEN ValidateAll(Tail(commands),
                 [st EXCEPT !.validated_commands = Append(@, cmd),
                            !.used_agvs = @ \cup {cmd.target}])
          ELSE ValidateAll(Tail(commands), st)

\* ProductFlowAgent._parse_agent_output on a list of commands: an exception
\* is caught (line 833) and no command is returned.
ParseAgentOutput(commands) ==
  LET st == ValidateAll(commands, [validated_commands |-> <<>>,
                                   used_agvs |-> {}, raised |-> FALSE])
  IN IF st.raised THEN <<>> ELSE st.validated_commands

\* The commands the oracle may return.
OracleCommands ==
  { Command("move", "AGV_1", "dict", "P1", NoLevel),
    Command("move", "AGV_2", "dict", "P9", NoLevel),
    Command("move", "AGV_1", "dict", "P99", NoLevel),
    Command("move", "AGV_2", "dict", Absent, NoLevel),
    Command("move", "AGV_9", "dict", "P1", NoLevel),
    Command("fly", "AGV_1", "dict", "P1", NoLevel),
    Command("load", "AGV_2", "absent", Absent, NoLevel),
    Command("charge", "AGV_1", "dict", Absent, Number(80)),
    Command("charge", "AGV_1", "dict", Absent, Number(150)),
    Command("charge", "AGV_2", "dict", Absent, NoLevel),
    Command("charge", "AGV_2", "dict", Absent, String(80)),
    Command("charge", "AGV_1", "dict", Absent, Bool(1)),
    Command("charge", "AGV_2", "dict", Absent, NaN),
    Command("charge", "AGV_1", "null", Absent, NoLevel) }

RECURSIVE SeqsUpTo(_, _)
SeqsUpTo(S, n) ==
  IF n = 0 THEN {<<>>}
  ELSE LET shorter == SeqsUpTo(S, n - 1)
       IN shorter \cup {Append(q, x) : q \in shorter, x \in S}

\* One generation cycle: the oracle's output is parsed and validated by
\* ProductFlowAgent and LineCommander._execute_commands publishes every
\* command it is handed, in order.
GenerateAndExecute(output) ==
  /\ lc' = [lc EXCEPT !.published = ParseAgentOutput(output)]
  /\ lastCall' = [op |-> "generate_commands", output |-> output]
  /\ UNCHANGED dirVars

NextCommands ==
  \E output \in SeqsUpTo(OracleCommands, MaxBatch) : GenerateAndExecute(output)

SpecCommands == Init /\ [][NextCommands]_vars

\* ------------------------------------------------------- command execution
Tasks == {"planned", "reactive"}

dispVars == <<memVars, sharedVars, threadVars, visits, cc, mq, som>>

\* A command id: none, one the oracle supplied, or f"{prefix}_{timestamp}".
NoId == [prefix |-> Absent, ts |-> 0]
OracleId(n) == [prefix |-> "oracle", ts |-> n]
GeneratedId(prefix, timestamp) == [prefix |-> prefix, ts |-> timestamp]

\* if "command_id" not in command: command["command_id"] = ...
EnsureCommandId(command, prefix, timestamp) ==
  IF command.command_id = NoId
  THEN [command EXCEPT !.command_id = GeneratedId(prefix, timestamp)]
  ELSE command

\* The commands handed to an execution loop: a target and the oracle's id.
DispatchCommands == [target : valid_agvs, command_id : {NoId, OracleId(1)}]

\* The batches ProductFlowAgent returns: no two commands for one vehicle.
LineBatches ==
  {b \in SeqsUpTo(DispatchCommands, MaxBatch) :
     /\ b # <<>>
     /\ \A i, j \in 1..Len(b) : i # j => b[i].target # b[j].target}

\* The batches of FactoryAgentManager's oracle: not validated.
FactoryBatches == SeqsUpTo(DispatchCommands, MaxBatch) \ {<<>>}

\* LineCommander._execute_commands is entered with a non-empty list.
ExecuteCommands(task, commands) ==
  /\ lc.mgr \in {"none", "line"}
  /\ ~lc.exec[task].running
  /\ lc' = [lc EXCEPT !.mgr = "line",
                      !.exec[task] = [commands |-> commands, running |-> TRUE]]
  /\ lastCall' = [op |-> "execute_commands", task |-> task, commands |-> commands]
  /\ UNCHANGED <<dispVars, now>>

\* "while self.is_running" as the reactive loop meets it when a cycle has
\* ended: it waits for the next event or leaves the loop.
AfterCycle(l) == IF l.is_running THEN "wait" ELSE "exited"

\* One iteration of the loop of LineCommander._execute_commands, up to its
\* sleep: id, metadata, publish_command (which catches its own exception:
\* ok = FALSE), history. After the last one the reactive loop is back at
\* its loop condition.
ExecuteCommandsStep(task, ok) ==
  /\ lc.mgr = "line"
  /\ lc.exec[task].running
  /\ LET command == EnsureCommandId(Head(lc.exec[task].commands), task, now)
         rest == Tail(lc.exec[task].commands)
     IN lc' = [lc EXCEPT
                 !.sent = IF ok THEN Append(@, command) ELSE @,
                 !.command_history =
                    Append(@, [command_id |-> command.command_id,
                               command |-> command, timestamp |-> now]),
                 !.exec[task] = [commands |-> rest, running |-> rest # <<>>],
                 !.rpc = IF task = "reactive" /\ rest = <<>> /\ @ = "wait"
                         THEN AfterCycle(lc) ELSE @]
  /\ now' = now + 1
  /\ lastCall' = [op |-> "execute_step", task |-> task, ok |-> ok]
  /\ UNCHANGED dispVars

\* FactoryAgentManager._execute_agent_commands ("planned") or
\* _execute_reactive_commands ("reactive") reaches its loop.
ExecuteAgentCommands(task, commands) ==
  /\ lc.mgr \in {"none", "factory"}
  /\ ~lc.exec[task].running
  /\ lc' = [lc EXCEPT !.mgr = "factory",
                      !.exec[task] = [commands |-> commands, running |-> TRUE]]
  /\ lastCall' = [op |-> "execute_commands", task |-> task, commands |-> commands]
  /\ UNCHANGED <<dispVars, now>>

\* One iteration of that loop: id, AgentCommandHistory.add_command, publish;
\* an exception of publish (ok = FALSE) is caught outside the loop.
ExecuteAgentCommandsStep(task, ok) ==
  /\ lc.mgr = "factory"
  /\ lc.exec[task].running
  /\ LET prefix == IF task = "planned" THEN "cmd" ELSE "reactive"
         command == EnsureCommandId(Head(lc.exec[task].commands), prefix, now)
         rest == IF ok THEN Tail(lc.exec[task].commands) ELSE <<>>
     IN lc' = [lc EXCEPT
                 !.command_history =
                    Append(@, [command_id |-> command.command_id,
                               command |-> command, timestamp |-> now]),
                 !.sent = IF ok THEN Append(@, command) ELSE @,
                 !.exec[task] = [commands |-> rest, running |-> rest # <<>>]]
  /\ now' = now + 1
  /\ lastCall' = [op |-> "execute_step", task |-> task, ok |-> ok]
  /\ UNCHANGED dispVars

NextDispatch ==
  \/ \E task \in Tasks, commands \in LineBatches :
       now < MaxClock /\ ExecuteCommands(task, commands)
  \/ \E task \in Tasks, ok \in BOOLEAN :
       now < MaxClock /\ ExecuteCommandsStep(task, ok)
  \/ \E task \in Tasks, commands \in FactoryBatches :
       now < MaxClock /\ ExecuteAgentCommands(task, commands)
  \/ \E task \in Tasks, ok \in BOOLEAN :
       now < MaxClock /\ ExecuteAgentCommandsStep(task, ok)

SpecDispatch == Init /\ [][NextDispatch]_vars

\* ------------------------------------------- LineCommander's two loops
\* What the oracle call of one cycle ends in: a list of commands, or a
\* failure (timeout, exception, output that cannot be parsed).
Outcome(kind, commands) == [kind |-> kind, commands |-> commands]
OracleOutcomes ==
  {Outcome("timeout", <<>>), Outcome("exception", <<>>),
   Outcome("unparseable", <<>>),
   Outcome("commands", <<[target |-> "AGV_1", command_id |-> NoId]>>),
   Outcome("commands", <<[target |-> "AGV_1", command_id |-> NoId],
                         [target |-> "AGV_2", command_id |-> NoId]>>)}

\* ProductFlowAgent.generate_flow_commands, awaited by LineCommander: the
\* oracle is run; a timeout or an exception propagates, output that cannot
\* be parsed yields no command.
GenerateFlowCommands(outcome) ==
  [raised |-> outcome.kind \in {"timeout", "exception"},
   commands |-> IF outcome.kind = "commands" THEN outcome.commands ELSE <<>>]

\* A generation that answers a failure with a default command.
GenerateDefaultCommands(outcome) ==
  IF outcome.kind = "commands" THEN outcome.commands
  ELSE <<[target |-> "AGV_1", command_id |-> NoId]>>

\* LineCommander._generate_agent_commands: an exception is logged and the
\* empty list returned.
GenerateAgentCommands(outcome) ==
  LET r == GenerateFlowCommands(outcome)
  IN IF r.raised THEN <<>> ELSE r.commands

\* The planned cycle is between building its context and its last dispatch.
PlannedMid(l) == l.ppc = "oracle" \/ l.exec["planned"].running

\* A planned loop that does not test the running flag.
PlannedTickUnguarded(result) ==
  /\ lc.ppc = "sleep"
  /\ ~lc.exec["planned"].running
  /\ lc' = [lc EXCEPT !.ppc = IF result = "orders" THEN "oracle" ELSE "sleep"]
  /\ lastCall' = [op |-> "tick", result |-> result]
  /\ UNCHANGED dirVars

\* _main_decision_cycle wakes up with the running flag set and runs
\* _process_planned_operations up to the oracle call: no orders (return), an exception (caught by the loop,
\* which sleeps again), or orders to process.
PlannedTick(result) ==
  /\ lc.is_running
  /\ lc.ppc = "sleep"
  /\ ~lc.exec["planned"].running
  /\ lc' = [lc EXCEPT !.ppc = IF result = "orders" THEN "oracle" ELSE "sleep"]
  /\ lastCall' = [op |-> "tick", result |-> result]
  /\ UNCHANGED dirVars

\* _process_planned_operations resumes from _generate_agent_commands and
\* enters _execute_commands, which returns at once on an empty list.
PlannedCommands(outcome) ==
  /\ lc.ppc = "oracle"
  /\ LET commands == GenerateAgentCommands(outcome)
     IN lc' = [lc EXCEPT !.ppc = "sleep",
                         !.mgr = IF commands # <<>> THEN "line" ELSE @,
                         !.exec["planned"] =
                            [commands |-> commands, running |-> commands # <<>>]]
  /\ lastCall' = [op |-> "oracle", task |-> "planned", outcome |-> outcome]
  /\ UNCHANGED dirVars

\* _process_reactive_event resumes from _generate_agent_commands and enters
\* _execute_commands; the loop then waits for the next event.
ReactiveCommands(outcome) ==
  /\ lc.rpc = "process"
  /\ LET commands == GenerateAgentCommands(outcome)
     IN lc' = [lc EXCEPT !.handled = Append(@, lc.taken.id),
                         !.taken = NoEvent,
                         !.rpc = IF commands # <<>> THEN "wait" ELSE AfterCycle(lc),
                         !.mgr = IF commands # <<>> THEN "line" ELSE @,
                         !.exec["reactive"] =
                            [commands |-> commands, running |-> commands # <<>>]]
  /\ lastCall' = [op |-> "oracle", task |-> "reactive", outcome |-> outcome]
  /\ UNCHANGED dirVars

\* The clock values the commands still to be executed will use.
Reserved(task) == Len(lc.exec[task].commands)

NextLoops ==
  \/ HandleAlerts("high")
  \/ \E result \in {"no_orders", "exception", "orders"} : PlannedTick(result)
  \/ \E outcome \in OracleOutcomes :
       /\ now + Len(outcome.commands) + Reserved("reactive") <= MaxClock
       /\ PlannedCommands(outcome)
  \/ ReactiveGet
  \/ \E outcome \in OracleOutcomes :
       /\ now + Len(outcome.commands) + Reserved("planned") <= MaxClock
       /\ ReactiveCommands(outcome)
  \/ \E task \in Tasks : ExecuteCommandsStep(task, TRUE)

\* Both loops are tasks of a running event loop: a sleep ends and a get on
\* a non-empty queue returns.
SpecLoops ==
  /\ Init /\ [][NextLoops]_vars
  /\ WF_vars(\E result \in {"no_orders", "exception", "orders"} : PlannedTick(result))
  /\ WF_vars(ReactiveGet)

\* FactoryAgentManager's event queue with its consumer and the planned
\* cycle's flag, both scheduled: the consumer's get returns, its processing
\* and its deferral finish, and the planned cycle ends (finally).
NextDefer ==
  \/ \E severity \in {"critical", "high"} : HandleAlerts(severity)
  \/ ReactiveGet
  \/ ProcessReactiveEvent
  \/ DeferEvent
  \/ \E b \in BOOLEAN : SetProcessing(b)

SpecDefer ==
  /\ Init /\ [][NextDefer]_vars
  /\ WF_vars(ReactiveGet)
  /\ WF_vars(ProcessReactiveEvent)
  /\ WF_vars(DeferEvent)
  /\ WF_vars(SetProcessing(FALSE))

\* --------------------------------------- FactoryAgentManager's commands
\* FactoryAgentManager.active_agvs
active_agvs == {"AGV_1", "AGV_2"}

\* FactoryAgentManager._validate_command
FamValidateCommand(command) ==
  /\ command.action # Absent
  /\ command.target # Absent
  /\ command.action \in {"move", "load", "unload", "charge"}
  /\ command.target \in active_agvs

\* The commands FactoryAgentManager's oracle may return.
FamCommands ==
  {[action |-> "move", target |-> "AGV_1", command_id |-> NoId],
   [action |-> "fly", target |-> "AGV_1", command_id |-> NoId],
   [action |-> "move", target |-> Absent, command_id |-> NoId]}

FamBatches == SeqsUpTo(FamCommands, MaxBatch) \ {<<>>}

\* A planned cycle's or a critical event's oracle output goes from
\* Runner.run straight to the execution loop.
NextFamCommands ==
  \/ \E task \in Tasks, commands \in FamBatches :
       now < MaxClock /\ ExecuteAgentCommands(task, commands)
  \/ \E task \in Tasks :
       now < MaxClock /\ ExecuteAgentCommandsStep(task, TRUE)

SpecFamCommands == Init /\ [][NextFamCommands]_vars

\* ------------------------------------------------------- the graph runner
\* One iteration of run_line_graph: graph.invoke(state) on the state kept
\* from the previous invocation. ingest_node drains the decision queue and
\* its "events" are added to the kept list by the reducer; route_node
\* chooses reactive_agent if the list is not empty, planned_agent otherwise;
\* reactive_agent_node processes events[0] and returns only a log entry.
GraphInvoke ==
  /\ lc.is_running
  /\ now < MaxClock
  /\ LET drained == lc.decision_queue
         events == lc.graph_events \o drained
         route == IF events # <<>> THEN "reactive_agent" ELSE "planned_agent"
     IN /\ lc' = [lc EXCEPT !.decision_queue = <<>>,
                            !.graph_events = events,
                            !.handled = IF route = "reactive_agent"
                                        THEN Append(@, events[1].id) ELSE @]
        /\ lastCall' = [op |-> "invoke", route |-> route, drained |-> drained]
  /\ now' = now + 1
  /\ UNCHANGED dispVars

NextGraph ==
  \/ \E severity \in Severities : HandleAlerts(severity)
  \/ GraphInvoke

SpecGraph == Init /\ [][NextGraph]_vars

\* ----------------------------------------------------------- the singleton
somFrame == <<visits, cc, lc, mq>>

\* SharedOrderManager.__new__: double-checked creation under the class lock;
\* the creator clears _initialized. The caller goes on to __init__.
SomNew(t) ==
  /\ som.ctor[t] = "idle"
  /\ som' = [som EXCEPT !.instance = TRUE,
                        !.initialized = IF som.instance THEN @ ELSE FALSE,
                        !.ctor[t] = "init"]
  /\ lastCall' = [op |-> "__new__", thread |-> t, created |-> ~som.instance]
  /\ UNCHANGED <<memVars, sharedVars, threadVars, now, somFrame>>

\* __init__ line 31: "if not self._initialized", read without a lock.
SomInitTest(t) ==
  /\ som.ctor[t] = "init"
  /\ som' = [som EXCEPT !.ctor[t] = IF som.initialized THEN "done" ELSE "body"]
  /\ lastCall' = [op |-> "__init__", thread |-> t, skipped |-> som.initialized]
  /\ UNCHANGED <<memVars, sharedVars, threadVars, now, somFrame>>

\* __init__ lines 32-37: a new OrderManager, a new lock, an empty processed
\* set, the counter at 0, then _initialized = True.
SomInitBody(t) ==
  /\ som.ctor[t] = "body"
  /\ orders' = EmptyMap
  /\ products' = EmptyMap
  /\ active_order_ids' = {}
  /\ heapP' = <<>>
  /\ heapO' = <<>>
  /\ assignment_lock' = 0
  /\ processed_orders' = {}
  /\ line_assignment_counter' = 0
  /\ som' = [som EXCEPT !.initialized = TRUE, !.inits = @ + 1, !.ctor[t] = "done"]
  /\ lastCall' = [op |-> "init_body", thread |-> t]
  /\ UNCHANGED <<selected, returned, pc, local, now, somFrame>>

\* A caller whose construction has returned uses the instance.
SomProcessOrder(t, payload) ==
  /\ som.ctor[t] = "done"
  /\ now < MaxClock
  /\ ProcessOrder(payload)
  /\ UNCHANGED som

NextSingleton ==
  \/ \E t \in Threads : SomNew(t)
  \/ \E t \in Threads : SomInitTest(t)
  \/ \E t \in Threads : SomInitBody(t)
  \/ \E t \in Threads, payload \in ConcPayloads : SomProcessOrder(t, payload)

SpecSingleton == Init /\ [][NextSingleton]_vars

\* ---------------------------------------------------------------- shutdown
\* _main_decision_cycle wakes up from its sleep, finds the running flag
\* cleared and returns.
PlannedExit ==
  /\ ~lc.is_running
  /\ lc.ppc = "sleep"
  /\ ~lc.exec["planned"].running
  /\ lc' = [lc EXCEPT !.ppc = "exited"]
  /\ lastCall' = [op |-> "planned_exit"]
  /\ UNCHANGED dirVars

\* _reactive_decision_processor: wait_for(queue.get) times out on an empty
\* queue, the loop continues, finds the running flag cleared and returns.
ReactiveExit ==
  /\ ~lc.is_running
  /\ lc.rpc = "wait"
  /\ ~lc.exec["reactive"].running
  /\ lc.decision_queue = <<>>
  /\ lc' = [lc EXCEPT !.rpc = "exited"]
  /\ lastCall' = [op |-> "reactive_exit"]
  /\ UNCHANGED dirVars

\* A stop that disconnects whether or not the listener is connected.
MqttStopUnguarded(l, ok) ==
  IF ok THEN [l EXCEPT !.is_connected = FALSE, !.disconnects = @ + 1] ELSE l

\* MQTTListenerManager.stop: disconnects if connected; an exception of
\* mqtt_client.disconnect() (ok = FALSE) is caught and leaves is_connected set.
MqttStop(l, ok) ==
  IF l.is_connected /\ ok
  THEN [l EXCEPT !.is_connected = FALSE, !.disconnects = @ + 1]
  ELSE l

\* LineCommander.stop
Stop(ok) ==
  /\ lc.stop_calls < MaxStops
  /\ lc' = [MqttStop(lc, ok) EXCEPT !.is_running = FALSE, !.stop_calls = @ + 1]
  /\ lastCall' = [op |-> "stop", raised |-> FALSE]
  /\ UNCHANGED dirVars

\* The line's task is cancelled unless it is done: CancelledError is raised
\* where each loop is suspended (no handler of the loops catches it), what
\* they held is abandoned, and start_command_operations' finally clears the
\* flag and stops the listener once more.
CancelTask(l, ok) ==
  IF l.ppc = "exited" /\ l.rpc = "exited" THEN l
  ELSE [MqttStop(l, ok) EXCEPT
          !.ppc = "exited", !.rpc = "exited", !.taken = NoEvent,
          !.exec = [task \in Tasks |-> [commands |-> <<>>, running |-> FALSE]],
          !.is_running = FALSE]

\* MultiLineFactoryManager.shutdown_all_lines: flags, stop() of every line
\* commander (an exception would be caught), cancellation of the tasks.
ShutdownAllLines(ok) ==
  /\ lc.stop_calls < MaxStops
  /\ LET stopped == [MqttStop(lc, ok) EXCEPT
                       !.is_running = FALSE, !.stop_calls = @ + 1,
                       !.factory = [is_running |-> FALSE, shutdown_event |-> TRUE]]
     IN lc' = CancelTask(stopped, ok)
  /\ lastCall' = [op |-> "shutdown_all_lines", raised |-> FALSE]
  /\ UNCHANGED dirVars

\* The oracle outcomes followed through a shutdown: a failure or commands.
StopOutcomes == {o \in OracleOutcomes : o.kind \in {"timeout", "commands"}}

NextStop ==
  \/ lc.is_connected /\ lc.puts < maxsize /\ HandleAlerts("high")
  \/ \E result \in {"no_orders", "orders"} : PlannedTick(result)
  \/ \E outcome \in StopOutcomes :
       /\ now + Len(outcome.commands) + Reserved("reactive") <= MaxClock
       /\ PlannedCommands(outcome)
  \/ PlannedExit
  \/ ReactiveGet
  \/ \E outcome \in StopOutcomes :
       /\ now + Len(outcome.commands) + Reserved("planned") <= MaxClock
       /\ ReactiveCommands(outcome)
  \/ ReactiveExit
  \/ \E task \in Tasks : ExecuteCommandsStep(task, TRUE)
  \/ \E ok \in BOOLEAN : Stop(ok)

\* Both loops are tasks of a running event loop: sleeps and queue waits end,
\* an awaited oracle call returns or raises, a command loop goes on.
SpecStop ==
  /\ Init /\ [][NextStop]_vars
  /\ WF_vars(PlannedExit)
  /\ WF_vars(ReactiveExit)
  /\ WF_vars(ReactiveGet)
  /\ WF_vars(\E outcome \in StopOutcomes :
               /\ now + Len(outcome.commands) + Reserved("reactive") <= MaxClock
               /\ PlannedCommands(outcome))
  /\ WF_vars(\E outcome \in StopOutcomes :
               /\ now + Len(outcome.commands) + Reserved("planned") <= MaxClock
               /\ ReactiveCommands(outcome))
  /\ WF_vars(\E task \in Tasks : ExecuteCommandsStep(task, TRUE))

\* process_orders_cycle called by the main loop: the flag is clear, it is
\* set, and the cycle is suspended on Runner.run.
CycleStart ==
  /\ lc.ppc = "sleep"
  /\ ~lc.is_processing
  /\ lc' = [lc EXCEPT !.ppc = "oracle", !.is_processing = TRUE]
  /\ lastCall' = [op |-> "process_orders_cycle", caller |-> "main", skipped |-> FALSE]
  /\ UNCHANGED dirVars

\* That cycle resumes, executes and returns through "finally".
CycleEnd ==
  /\ lc.ppc = "oracle"
  /\ lc' = [lc EXCEPT !.ppc = "sleep", !.is_processing = FALSE]
  /\ lastCall' = [op |-> "cycle_end", caller |-> "main"]
  /\ UNCHANGED dirVars

\* process_orders_cycle called again while the main loop's cycle is
\* suspended: with the flag set it returns from inside the try, and the
\* finally clause runs; with the flag clear it starts a cycle of its own.
SecondCall ==
  /\ lc.ppc = "oracle"
  /\ lc.second = "none"
  /\ lc' = IF lc.is_processing
           THEN [lc EXCEPT !.is_processing = FALSE]
           ELSE [lc EXCEPT !.is_processing = TRUE, !.second = "oracle"]
  /\ lastCall' = [op |-> "process_orders_cycle", caller |-> "second",
                  skipped |-> lc.is_processing]
  /\ UNCHANGED dirVars

\* The second caller's own cycle returns through "finally".
SecondEnd ==
  /\ lc.second = "oracle"
  /\ lc' = [lc EXCEPT !.second = "none", !.is_processing = FALSE]
  /\ lastCall' = [op |-> "cycle_end", caller |-> "second"]
  /\ UNCHANGED dirVars

NextCycle ==
  \/ \E severity \in {"critical", "high"} : HandleAlerts(severity)
  \/ ReactiveGet
  \/ ProcessReactiveEvent
  \/ DeferEvent
  \/ CycleStart
  \/ CycleEnd
  \/ SecondCall
  \/ SecondEnd

SpecCycle == Init /\ [][NextCycle]_vars

\* FactoryAgentManager.stop: mqtt_client.disconnect() inside try/except
\* (ok = FALSE: it raised); no flag is assigned.
FamStop(ok) ==
  /\ lc.stop_calls < MaxStops
  /\ lc' = [lc EXCEPT !.is_connected = IF ok THEN FALSE ELSE @,
                      !.disconnects = IF ok THEN @ + 1 ELSE @,
                      !.stop_calls = @ + 1]
  /\ lastCall' = [op |-> "stop", raised |-> FALSE]
  /\ UNCHANGED dirVars

\* FactoryAgentManager's two loops ("while self.is_running") and its stop.
NextFamStop ==
  \/ \E severity \in {"critical", "high"} : lc.is_connected /\ HandleAlerts(severity)
  \/ ReactiveGet
  \/ ProcessReactiveEvent
  \/ DeferEvent
  \/ lc.is_running /\ SetProcessing(TRUE)
  \/ SetProcessing(FALSE)
  \/ \E ok \in BOOLEAN : FamStop(ok)

SpecFamStop == Init /\ [][NextFamStop]_vars

\* The same line under a manager that may also shut all lines down.
NextShutdown ==
  \/ NextStop
  \/ \E ok \in BOOLEAN : ShutdownAllLines(ok)

SpecShutdown == Init /\ [][NextShutdown]_vars

\* ------------------------------------------------- the telemetry snapshot
telVars == <<memVars, sharedVars, threadVars, now, visits, cc, lc, som>>

\* The alerts the model lets arrive.
MaxAlerts == AlertCap + 2

\* message_handlers[category]: the registered listeners, in registration order.
Listeners == <<"first", "second">>

\* A payload: bytes that json.loads rejects, JSON that is not an object
\* (data.get raises), or a JSON object.
Undecodable == [kind |-> "undecodable"]
NotObject == [kind |-> "not_object"]
Json(data) == [kind |-> "object", data |-> data]

\* The value of everything reachable from a top-level dict.
Deref(heap, top) ==
  [stations |-> heap[top.stations], agvs |-> heap[top.agvs],
   conveyors |-> heap[top.conveyors], alerts |-> heap[top.alerts]]

\* A notification loop that ends at the first listener that raises.
RECURSIVE NotifyUntilRaise(_, _, _, _)
NotifyUntilRaise(handlers, id, record, raising) ==
  IF handlers = <<>> THEN <<>>
  ELSE LET call == [handler |-> Head(handlers), id |-> id, record |-> record,
                    raised |-> Head(handlers) \in raising]
       IN IF call.raised THEN <<call>>
          ELSE <<call>> \o NotifyUntilRaise(Tail(handlers), id, record, raising)

\* for handler in self.message_handlers[...]: try: handler(id, parsed_data)
\* except Exception: log. The calls made, in order.
RECURSIVE NotifyAll(_, _, _, _)
NotifyAll(handlers, id, record, raising) ==
  IF handlers = <<>> THEN <<>>
  ELSE <<[handler |-> Head(handlers), id |-> id, record |-> record,
          raised |-> Head(handlers) \in raising]>>
       \o NotifyAll(Tail(handlers), id, record, raising)

\* The body shared by _on_station_status, _on_agv_status and
\* _on_conveyor_status: decode, build parsed_data, store it under the device
\* id, notify; an exception before the loop is caught by the outer except.
StoreAndNotify(category, id, payload, parsed_data, raising) ==
  /\ mq' = IF payload.kind # "object"
           THEN [mq EXCEPT !.invoked = <<>>]
           ELSE [mq EXCEPT !.heap[mq.factory_state[category]][id] = parsed_data,
                           !.invoked = NotifyAll(Listeners, id, parsed_data, raising)]
  /\ lastCall' = [op |-> category, id |-> id, payload |-> payload,
                  raising |-> raising]
  /\ UNCHANGED telVars

\* MQTTListenerManager._on_station_status(topic, payload)
OnStationStatusPayload(station_id, payload, raising) ==
  StoreAndNotify("stations", station_id, payload,
                 IF payload.kind = "object" THEN ParseStation(payload.data)
                 ELSE NoRecord, raising)

\* MQTTListenerManager._on_agv_status(topic, payload)
OnAgvStatusPayload(agv_id, payload, raising) ==
  StoreAndNotify("agvs", agv_id, payload,
                 IF payload.kind = "object" THEN ParseAgv(payload.data)
                 ELSE NoRecord, raising)

\* MQTTListenerManager._on_conveyor_status(topic, payload)
OnConveyorStatusPayload(conveyor_id, payload, raising) ==
  StoreAndNotify("conveyors", conveyor_id, payload,
                 IF payload.kind = "object" THEN ParseConveyor(payload.data)
                 ELSE NoRecord, raising)

\* A truncation that keeps the oldest n entries.
KeepFirst(list, n) == SubSeq(list, 1, n)

\* list[-n:] for a list longer than n
KeepLast(list, n) == SubSeq(list, Len(list) - n + 1, Len(list))

\* MQTTListenerManager._on_alerts: the entry is appended to the list object
\* in place; past the cap, factory_state["alerts"] is bound to a new list.
OnAlerts(payload, raising) ==
  /\ mq.alerts_seen < MaxAlerts
  /\ LET ref == mq.factory_state.alerts
         alert_entry == [id |-> mq.alerts_seen + 1]
         appended == Append(mq.heap[ref], alert_entry)
         heap1 == [mq.heap EXCEPT ![ref] = appended]
     IN mq' = IF payload.kind # "object"
              THEN [mq EXCEPT !.invoked = <<>>]
              ELSE [mq EXCEPT
                      !.alerts_seen = @ + 1,
                      !.heap = IF Len(appended) > AlertCap
                               THEN Append(heap1, KeepLast(appended, AlertCap))
                               ELSE heap1,
                      !.factory_state.alerts =
                         IF Len(appended) > AlertCap THEN Len(heap1) + 1 ELSE @,
                      !.invoked = NotifyAll(Listeners, "alert", alert_entry, raising)]
  /\ lastCall' = [op |-> "alerts", id |-> "alert", payload |-> payload,
                  raising |-> raising]
  /\ UNCHANGED telVars

\* MQTTListenerManager.get_factory_state: self.factory_state.copy()
GetFactoryState ==
  /\ mq' = [mq EXCEPT !.snapshot = [taken |-> TRUE, top |-> mq.factory_state]]
  /\ lastCall' = [op |-> "get_factory_state"]
  /\ UNCHANGED telVars

\* A reader assigns to an entry of a nested dict of its snapshot.
ReaderSetEntry(category, id) ==
  /\ mq.snapshot.taken
  /\ mq' = [mq EXCEPT !.heap[mq.snapshot.top[category]][id] = [status |-> "reader"]]
  /\ lastCall' = [op |-> "reader_write", category |-> category]
  /\ UNCHANGED telVars

\* A reader appends to the alert list of its snapshot.
ReaderAppendAlert ==
  /\ mq.snapshot.taken
  /\ Len(mq.heap[mq.snapshot.top.alerts]) < MaxAlerts
  /\ mq' = [mq EXCEPT !.heap[mq.snapshot.top.alerts] = Append(@, [id |-> 0])]
  /\ lastCall' = [op |-> "reader_write", category |-> "alerts"]
  /\ UNCHANGED telVars

\* The payloads offered.
StationPayloads ==
  {Undecodable, NotObject}
  \cup {Json(raw) : raw \in [status : {"idle", Absent},
                             buffer : {Missing, Null, List(1)},
                             output_buffer : {List(0)}]}
AgvPayloads ==
  {Undecodable}
  \cup {Json(raw) : raw \in [status : {"idle"}, battery_level : {50},
                             payload : {Missing, Null, List(1)}]}
ConveyorPayloads ==
  {NotObject}
  \cup {Json(raw) : raw \in [status : {"working"}, buffer : {List(0)},
                             upper_buffer : {Missing, Null},
                             lower_buffer : {List(1)}]}
AlertPayloads == {Undecodable, Json([severity |-> "high"])}

NextTelemetry ==
  \/ \E station_id \in DeviceIds.stations, payload \in StationPayloads,
        raising \in SUBSET {"first", "second"} :
       OnStationStatusPayload(station_id, payload, raising)
  \/ \E agv_id \in DeviceIds.agvs, payload \in AgvPayloads,
        raising \in SUBSET {"first", "second"} :
       OnAgvStatusPayload(agv_id, payload, raising)
  \/ \E conveyor_id \in DeviceIds.conveyors, payload \in ConveyorPayloads,
        raising \in SUBSET {"first", "second"} :
       OnConveyorStatusPayload(conveyor_id, payload, raising)
  \/ \E payload \in AlertPayloads, raising \in SUBSET {"first", "second"} :
       OnAlerts(payload, raising)
  \/ GetFactoryState

SpecTelemetry == Init /\ [][NextTelemetry]_vars

\* Telemetry interleaved with a reader that writes to the snapshot it got.
NextReader ==
  \/ \E station_id \in DeviceIds.stations,
        raw \in [status : {"idle", "blocked"}, buffer : {List(1)},
                 output_buffer : {List(0)}] :
       OnStationStatusPayload(station_id, Json(raw), {})
  \/ \E agv_id \in DeviceIds.agvs :
       OnAgvStatusPayload(agv_id, Json([status |-> "idle", battery_level |-> 50,
                                        payload |-> List(0)]), {})
  \/ OnAlerts(Json([severity |-> "high"]), {})
  \/ GetFactoryState
  \/ \E category \in {"stations", "agvs", "conveyors"} :
       \E id \in DeviceIds[category] : ReaderSetEntry(category, id)
  \/ ReaderAppendAlert

SpecReader == Init /\ [][NextReader]_vars

\* --------------------------------------------- a class-C product's traversal
\* The order that holds the one class-C product, and that product's id.
P3Payload == [order_id |-> OidA, items |-> <<Item(<<"P3">>, 1)>>]
P3Id == ProductId(<<"P3">>, OidA, 1)

\* ProductStatus: the status a product has at each location.
StatusAt(location) ==
  CASE location = "StationA" -> AT_STATION_A
    [] location = "StationB" -> AT_STATION_B
    [] location = "StationC" -> AT_STATION_C
    [] location = "QualityCheck" -> AT_QUALITY_CHECK
    [] location = "Warehouse" -> IN_WAREHOUSE

P3Product == heapP[products[P3Id]]

P3Create ==
  /\ ProcessOrder(P3Payload)

\* The product is moved to the location get_next_processing_step returns and
\* the arrival is recorded by update_product_status with that location.
Arrive ==
  /\ P3Id \in DOMAIN products
  /\ Len(P3Product.processing_history) < MaxReports
  /\ LET nxt == GetNextProcessingStep(P3Product)
     IN /\ nxt # NoneVal
        /\ UpdateCall(P3Id, StatusAt(nxt), nxt, NoneVal)
        /\ visits' = IF nxt \in DOMAIN visits
                      THEN [visits EXCEPT ![nxt] = @ + 1] ELSE visits
        /\ UNCHANGED <<cc, lc, mq, som>>

\* The status report of the last arrival is delivered once more.
RepeatReport ==
  /\ P3Id \in DOMAIN products
  /\ Len(P3Product.processing_history) < MaxReports
  /\ P3Product.status # PENDING
  /\ UpdateCall(P3Id, P3Product.status, P3Product.current_location, NoneVal)
  /\ UNCHANGED <<visits, cc, lc, mq, som>>

NextP3 ==
  \/ P3Create
  \/ Arrive
  \/ RepeatReport

SpecP3 == Init /\ [][NextP3]_vars

\* ===================================================================== claims
AllOrderIds == {OidA, OidBA, OidC, OidD}

OrderRefs == 1..Len(heapO)
ProductRefs == 1..Len(heapP)

\* The Order objects stored for an order id so far.
OrdersCreatedFor(oid) == {r \in OrderRefs : heapO[r].order_id = oid}

\* The positions in stored orders that hold a reference to Product object p.
StoredOwners(p) ==
  {x \in OrderRefs \X ProductRefs :
     x[2] <= Len(heapO[x[1]].products) /\ heapO[x[1]].products[x[2]] = p}

\* The positions in orders still under construction that hold a reference to p.
BuildingOwners(p) ==
  {x \in Threads \X ProductRefs :
     x[2] <= Len(local[x[1]].order.products) /\ local[x[1]].order.products[x[2]] = p}

SelectionsFor(oid) == {k \in 1..Len(selected) : selected[k][1] = oid}

LinesOf(order) == DOMAIN order.line_assignments

C2_RoundRobin ==
  /\ line_assignment_counter = Len(selected)
  /\ \A k \in 1..Len(selected) :
       selected[k][2] = available_lines[((k - 1) % Len(available_lines)) + 1]
  /\ \A oid \in processed_orders :
       Cardinality(SelectionsFor(oid)) =
         (IF heapO[orders[oid]].products # <<>> THEN 1 ELSE 0)
  /\ \A k \in 1..Len(selected) :
       selected[k][1] \in DOMAIN orders =>
         LinesOf(heapO[orders[selected[k][1]]]) = {selected[k][2]}
  /\ \A l1, l2 \in Lines :
       Cardinality({k \in 1..Len(selected) : selected[k][2] = l1})
         <= Cardinality({k \in 1..Len(selected) : selected[k][2] = l2}) + 1

\* Four orders with products have been assigned, the fourth wrapping around to
\* line1, while another caller is waiting for the lock.
C2_Witness ==
  /\ Len(selected) = 4
  /\ selected[4][2] = "line1"
  /\ selected[3][2] = "line3"
  /\ \E t \in Threads : pc[t] = "acquire"

\* The spec's scenario: items [class A x 2, class C x 1], no deadline.
ScenarioPayload ==
  [order_id |-> OidA, items |-> <<Item(<<"P1">>, 2), Item(<<"P3">>, 1)>>]

\* The last call was a process_order that created a new order.
FreshOrder == lastCall.op = "process_order" /\ lastCall.fresh

\* All products of the order are listed, once each, under exactly one line.
OnOneLine(order) ==
  \E l \in Lines :
    /\ DOMAIN order.line_assignments = {l}
    /\ order.line_assignments[l] = ProductIdsOf(order.products, heapP)

\* C3 as stated: after process_order handles a new order with at least one
\* item, all its products are under exactly one line and its status is
\* in_progress.
C3_Original ==
  (FreshOrder /\ Len(lastCall.payload.items) >= 1) =>
     /\ heapO[lastCall.ret].status = O_IN_PROGRESS
     /\ OnOneLine(heapO[lastCall.ret])

\* C3 amended: after process_order handles a new order whose items expand to
\* at least one product (total quantity >= 1), the order holds sum(quantity)
\* products, all under exactly one line, and its status is in_progress; the
\* scenario gives 3 products, two of class P1 and one of class P3.
C3_Amended ==
  (FreshOrder /\ SumQuantity(lastCall.payload.items) >= 1) =>
     LET order == heapO[lastCall.ret]
     IN /\ order.status = O_IN_PROGRESS
        /\ OnOneLine(order)
        /\ Len(order.products) = SumQuantity(lastCall.payload.items)
        /\ lastCall.payload = ScenarioPayload =>
             [i \in 1..Len(order.products) |-> heapP[order.products[i]].product_type]
               = <<"P1", "P1", "P3">>

\* The scenario order has just been processed: 3 products on one line.
C3_Witness ==
  /\ FreshOrder
  /\ lastCall.payload = ScenarioPayload
  /\ Len(heapO[lastCall.ret].products) = 3
  /\ heapO[lastCall.ret].line_assignments = [l \in {"line1"} |->
        ProductIdsOf(heapO[lastCall.ret].products, heapP)]

\* Every product the order owns is in_warehouse or failed_qc.
AllTerminal(order, hp) ==
  \A i \in 1..Len(order.products) :
    hp[order.products[i]].status \in {IN_WAREHOUSE, FAILED_QC}

C5_Original ==
  \A r \in OrderRefs :
    LET la == heapO[r].line_assignments
    IN /\ \A l1, l2 \in DOMAIN la :
            l1 # l2 => Range(la[l1]) \cap Range(la[l2]) = {}
       /\ \A l \in DOMAIN la : Cardinality(Range(la[l])) = Len(la[l])

\* The stored orders, as OrderManager.orders names them.
StoredRefs == {orders[oid] : oid \in DOMAIN orders}

\* C6 as stated: every product in the product map is owned by exactly one
\* stored order, product ids are pairwise distinct across all orders, and a
\* new order holds sum(quantity) products, unknown classes becoming P1.
C6_Original ==
  /\ \A pid \in DOMAIN products :
       Cardinality({r \in StoredRefs : products[pid] \in Range(heapO[r].products)}) = 1
  /\ \A r1, r2 \in StoredRefs :
       \A i \in 1..Len(heapO[r1].products), j \in 1..Len(heapO[r2].products) :
         heapP[heapO[r1].products[i]].product_id = heapP[heapO[r2].products[j]].product_id
           => (r1 = r2 /\ i = j)
  /\ FreshOrder =>
       /\ Len(heapO[lastCall.ret].products) = SumQuantity(lastCall.payload.items)
       /\ \A i \in 1..Len(heapO[lastCall.ret].products) :
            heapP[heapO[lastCall.ret].products[i]].product_type \in ProductTypes

\* C7 as stated: whenever the driven class-C product's next step is
\* QualityCheck it has arrived at StationB twice and at StationC twice, and
\* from the quality check its next step is Warehouse.
C7_Original ==
  P3Id \in DOMAIN products =>
    /\ GetNextProcessingStep(P3Product) = "QualityCheck" =>
         (visits["StationB"] = 2 /\ visits["StationC"] = 2)
    /\ P3Product.status = AT_QUALITY_CHECK =>
         GetNextProcessingStep(P3Product) = "Warehouse"

\* The status changes of the lifecycle, per product class.
Lifecycle(product_type) ==
  {<<PENDING, AT_STATION_A>>, <<AT_STATION_A, AT_STATION_B>>,
   <<AT_STATION_B, AT_STATION_C>>, <<AT_STATION_C, AT_QUALITY_CHECK>>,
   <<AT_QUALITY_CHECK, IN_WAREHOUSE>>, <<AT_QUALITY_CHECK, FAILED_QC>>}
  \cup (IF product_type = "P3" THEN {<<AT_STATION_C, AT_STATION_B>>} ELSE {})

\* C8 as stated: a product's status changes only along the lifecycle.
C8_Original ==
  [][ \A r \in ProductRefs :
        heapP'[r].status # heapP[r].status =>
          <<heapP[r].status, heapP'[r].status>> \in Lifecycle(heapP[r].product_type)
    ]_vars

\* C9: every update_product_status call on a known product appends exactly one
\* entry to that product's history and touches no other history; no step
\* removes or rewrites an entry of any Product object; a call naming an
\* unknown product id changes no product, order or history.
C9_HistoryAppendOnly ==
  [][ /\ \A r \in ProductRefs :
          /\ r <= Len(heapP')
          /\ IsPrefix(heapP[r].processing_history, heapP'[r].processing_history)
      /\ (lastCall'.op = "update_product_status" /\ lastCall'.known) =>
          /\ Len(heapP') = Len(heapP)
          /\ \A r \in ProductRefs :
               Len(heapP'[r].processing_history) =
                 Len(heapP[r].processing_history)
                   + (IF r = products[lastCall'.product_id] THEN 1 ELSE 0)
      /\ (lastCall'.op = "update_product_status" /\ ~lastCall'.known) =>
          UNCHANGED <<memVars, sharedVars, now>>
    ]_vars

\* A known product has been updated twice: its history holds the creation
\* entry and two status changes.
C9_Witness ==
  /\ lastCall.op = "update_product_status"
  /\ lastCall.known
  /\ Len(heapP[products[lastCall.product_id]].processing_history) = 3

\* C10 as stated: completion_time is set exactly once, on entering
\* in_warehouse, never overwritten, and is set iff the status is in_warehouse.
C10_Original ==
  [][ \A r \in 1..Len(heapP') :
        /\ heapP'[r].completion_time # NoTime <=> heapP'[r].status = IN_WAREHOUSE
        /\ r <= Len(heapP) =>
             /\ heapP[r].completion_time # NoTime =>
                  heapP'[r].completion_time = heapP[r].completion_time
             /\ heapP'[r].completion_time # heapP[r].completion_time =>
                  (heapP[r].status # IN_WAREHOUSE /\ heapP'[r].status = IN_WAREHOUSE)
    ]_vars

\* The payloads the failure semantics call malformed: no order id, items that
\* is not a list, or an item without product_type or without quantity.
Malformed(payload) ==
  \/ payload.order_id = NoOrderId
  \/ payload.items = NotAList
  \/ \E i \in 1..Len(payload.items) :
       DOMAIN payload.items[i] # {"product_type", "quantity"}

\* C11 as stated: a process_order call with a malformed payload returns no
\* Order and leaves the orders map, the products map, the active set, the
\* processed set and the round-robin counter as they were before the call.
C11_Original ==
  [][ (lastCall'.op = "process_order" /\ Malformed(lastCall'.payload)) =>
        /\ lastCall'.ret = NoRef
        /\ UNCHANGED <<orders, products, active_order_ids, processed_orders,
                       line_assignment_counter>>
    ]_vars

\* The Product objects that should be offered to line_id for transport: owned
\* by an order of the active set, listed by that order under line_id, pending
\* or at the quality check, and without a vehicle.
TransportCandidates(line_id) ==
  {r \in ProductRefs :
     /\ heapP[r].status \in {"pending", "at_quality_check"}
     /\ heapP[r].assigned_agv = "None"
     /\ \E oid \in active_order_ids :
          LET order == heapO[orders[oid]]
          IN /\ r \in Range(order.products)
             /\ line_id \in DOMAIN order.line_assignments
             /\ heapP[r].product_id \in Range(order.line_assignments[line_id])}

\* C12: get_products_needing_transport(line_id) returns exactly the products
\* of active orders that are assigned to line_id, are pending or at the
\* quality check and have no vehicle, each of them once; a product in another
\* status, on another line or with a vehicle is never returned.
C12_TransportExact ==
  lastCall.op = "get_products_needing_transport" =>
    /\ Range(lastCall.ret) = TransportCandidates(lastCall.line_id)
    /\ Cardinality(Range(lastCall.ret)) = Len(lastCall.ret)

\* line1 asks for work while it holds one product that waits without a vehicle
\* and one at the quality check that already has a vehicle, and another line
\* holds a pending product: only the first is returned.
C12_Witness ==
  /\ lastCall.op = "get_products_needing_transport"
  /\ lastCall.line_id = "line1"
  /\ Len(lastCall.ret) = 1
  /\ \E r \in ProductRefs :
       /\ r \notin Range(lastCall.ret)
       /\ heapP[r].status = AT_QUALITY_CHECK
       /\ heapP[r].assigned_agv = "AGV_1"
       /\ r \in Range(heapO[orders[OidA]].products)
  /\ \E r \in ProductRefs :
       /\ r \notin Range(lastCall.ret)
       /\ heapP[r].status = PENDING
       /\ heapP[r].assigned_agv = NoneVal

\* A process_order call that has stored the order oid and not yet returned.
StillBuilding(oid) ==
  \E t \in Threads :
    /\ pc[t] \in {"active", "assign", "mark"}
    /\ local[t].payload.order_id = oid

\* C13 as stated: in every interleaving of complete_order_check with
\* process_order and update_product_status, the check raises no error, an
\* order has no non-terminal product at the moment it is marked completed, and
\* an order that process_order is still building is never removed from the
\* active set.
C13_Original ==
  [][ /\ ~cc'.raised
      /\ \A r \in OrderRefs :
           (heapO[r].status # O_COMPLETED /\ heapO'[r].status = O_COMPLETED)
             => AllTerminal(heapO[r], heapP)
      /\ \A oid \in active_order_ids \ active_order_ids' : ~StillBuilding(oid)
    ]_vars

\* The identities of the events in a queue, oldest first.
Ids(queue) == [i \in 1..Len(queue) |-> queue[i].id]

NoDuplicates(seq) == Cardinality(Range(seq)) = Len(seq)

\* C14: the queue never holds more than its capacity; an enqueue on a full
\* queue returns normally, drops the new event and leaves the queued events
\* unchanged, an enqueue on a queue with room appends the event; so after
\* capacity+1 enqueues with no consumer exactly the first capacity events are
\* retained and one was dropped.
C14_DropNewest ==
  [][ /\ Len(lc'.decision_queue) <= maxsize
      /\ lc'.puts = lc.puts + 1 =>
           IF Len(lc.decision_queue) >= maxsize
           THEN /\ lc'.decision_queue = lc.decision_queue
                /\ lc'.dropped = Append(lc.dropped, lc'.puts)
           ELSE /\ Len(lc'.decision_queue) = Len(lc.decision_queue) + 1
                /\ SubSeq(lc'.decision_queue, 1, Len(lc.decision_queue))
                     = lc.decision_queue
                /\ lc'.decision_queue[Len(lc'.decision_queue)].id = lc'.puts
                /\ lc'.dropped = lc.dropped
      /\ (lc'.puts = maxsize + 1 /\ ~lc'.consumed) =>
           /\ Ids(lc'.decision_queue) = [i \in 1..maxsize |-> i]
           /\ lc'.dropped = <<maxsize + 1>>
    ]_vars

\* capacity+1 events were enqueued and none consumed: the queue is full and
\* the last event was dropped.
C14_Witness ==
  /\ lc.puts = maxsize + 1
  /\ ~lc.consumed
  /\ Len(lc.decision_queue) = maxsize
  /\ lc.dropped = <<maxsize + 1>>

\* C15: no event is handed to reactive processing twice: the events processed
\* so far are pairwise distinct, and an event that was processed is neither
\* in the queue nor in the consumer's hand again, also when the consumer took
\* it out and re-enqueued it while the planned cycle was running.
C15_AtMostOnce ==
  /\ NoDuplicates(lc.handled)
  /\ NoDuplicates(Ids(lc.decision_queue))
  /\ Range(lc.handled) \cap Range(Ids(lc.decision_queue)) = {}
  /\ lc.taken.id \notin Range(lc.handled) \cup Range(Ids(lc.decision_queue))

\* An event that the consumer deferred and re-enqueued has been processed,
\* after another event.
C15_Witness ==
  /\ Len(lc.handled) >= 2
  /\ lc.handled[Len(lc.handled)] \in lc.deferred

\* critical > high > medium > low
Rank(severity) ==
  CASE severity = "critical" -> 4
    [] severity = "high" -> 3
    [] severity = "medium" -> 2
    [] OTHER -> 1

\* C16 as stated: the event the reactive loop dequeues is of a severity at
\* least that of every event left in the queue.
C16_Original ==
  [][ (lc.rpc = "wait" /\ lc'.rpc # "wait") =>
        \A i \in 1..Len(lc'.decision_queue) :
          Rank(lc'.taken.severity) >= Rank(lc'.decision_queue[i].severity)
    ]_vars

\* The events a step appended to the queue.
Enqueued(l0, l1) ==
  IF Len(l1.decision_queue) >= Len(l0.decision_queue)
  THEN {[type |-> l1.decision_queue[i].type,
         severity |-> l1.decision_queue[i].severity] :
          i \in (Len(l0.decision_queue) + 1)..Len(l1.decision_queue)}
  ELSE {}

\* C17 as stated: ingesting a station message with status blocked while the
\* queue is not full enqueues exactly one station_blocked event of severity
\* critical and lengthens the queue by exactly 1, whatever the buffers are
\* (present, missing or null).
C17_Original ==
  [][ (lastCall'.op = "station_status" /\ lastCall'.raw.status = "blocked"
         /\ Len(lc.decision_queue) < maxsize) =>
        /\ Len(lc'.decision_queue) = Len(lc.decision_queue) + 1
        /\ Enqueued(lc, lc') = {[type |-> "station_blocked", severity |-> "critical"]}
    ]_vars

\* An empty payload: an empty list, or no payload field at all.
EmptyList(field) == field.kind = "missing" \/ (field.kind = "list" /\ field.len = 0)

\* C18 as stated: for every AGV update ingested while the queue is empty,
\* battery below 20 and not charging enqueues agv_critical_battery (critical);
\* idle with a non-empty payload enqueues agv_loaded_idle (high); idle with
\* battery from 20 to 40, both included, and an empty payload enqueues
\* agv_needs_charging (medium).
C18_Original ==
  [][ (lastCall'.op = "agv_status" /\ lc.decision_queue = <<>>) =>
        LET raw == lastCall'.raw
        IN /\ (raw.battery_level < 20 /\ raw.status # "charging") =>
                [type |-> "agv_critical_battery", severity |-> "critical"]
                  \in Enqueued(lc, lc')
           /\ (raw.status = "idle" /\ raw.payload.kind = "list"
                 /\ raw.payload.len > 0) =>
                [type |-> "agv_loaded_idle", severity |-> "high"]
                  \in Enqueued(lc, lc')
           /\ (raw.status = "idle" /\ raw.battery_level >= 20
                 /\ raw.battery_level <= 40 /\ EmptyList(raw.payload)) =>
                [type |-> "agv_needs_charging", severity |-> "medium"]
                  \in Enqueued(lc, lc')
    ]_vars

\* C19 as stated: a conveyor update ingested while the queue is empty that
\* shows a product in the upper or lower buffer of Conveyor_CQ enqueues the
\* second-pass event (high), and one that shows status blocked or a buffer
\* of more than 5 items enqueues conveyor_congestion (high); an update that
\* meets both conditions enqueues both.
C19_Original ==
  [][ (lastCall'.op = "conveyor_status" /\ lc.decision_queue = <<>>) =>
        LET raw == lastCall'.raw
        IN /\ (lastCall'.id = "Conveyor_CQ"
                 /\ (raw.upper_buffer.len > 0 \/ raw.lower_buffer.len > 0)) =>
                [type |-> "p3_products_ready_for_second_processing",
                 severity |-> "high"] \in Enqueued(lc, lc')
           /\ (raw.status = "blocked" \/ raw.buffer.len > 5) =>
                [type |-> "conveyor_congestion", severity |-> "high"]
                  \in Enqueued(lc, lc')
    ]_vars

\* C20 as stated: every dispatched command has an action among move, load,
\* unload, charge and a target AGV_1 or AGV_2; a dispatched move carries a
\* target_point in P0..P9 and a dispatched charge carries a numeric
\* target_level within [0,100].
C20_Original ==
  \A i \in 1..Len(lc.published) :
    LET c == lc.published[i]
    IN /\ c.action \in {"move", "load", "unload", "charge"}
       /\ c.target \in {"AGV_1", "AGV_2"}
       /\ c.action = "move" =>
            (c.params = "dict" /\ c.target_point \in
               {"P0", "P1", "P2", "P3", "P4", "P5", "P6", "P7", "P8", "P9"})
       /\ c.action = "charge" =>
            (c.params = "dict" /\ c.target_level.kind = "number"
             /\ c.target_level.value >= 0 /\ c.target_level.value <= 100)

\* The commands of an oracle response that pass validation, the first one
\* per vehicle, in their original order.
RECURSIVE KeptFrom(_, _)
KeptFrom(output, i) ==
  IF i > Len(output) THEN <<>>
  ELSE LET keep == /\ ValidateCommand(output[i]) = "valid"
                   /\ ~\E j \in 1..(i - 1) :
                         /\ ValidateCommand(output[j]) = "valid"
                         /\ output[j].target = output[i].target
       IN (IF keep THEN <<output[i]>> ELSE <<>>) \o KeptFrom(output, i + 1)

\* C21 as stated: the commands dispatched from one oracle response are
\* exactly those of the response that pass validation, in their original
\* order, the first one per vehicle; a command that does not pass never
\* prevents the dispatch of the valid ones.
C21_Original ==
  lastCall.op = "generate_commands" =>
    lc.published = KeptFrom(lastCall.output, 1)

\* C22 as stated: every dispatched command has a command_id and no two
\* commands recorded in the command history share a command_id, whether
\* generated from the clock or supplied by the oracle.
C22_Original ==
  /\ \A i \in 1..Len(lc.sent) : lc.sent[i].command_id # NoId
  /\ \A i, j \in 1..Len(lc.command_history) :
       i # j => lc.command_history[i].command_id # lc.command_history[j].command_id

\* C23 as stated: the history never contains a command that was not
\* published, no command is published without being recorded, and every
\* command handed to the execution loop is published and recorded once even
\* when the publication of another one failed.
C23_Original ==
  /\ \A i \in 1..Len(lc.command_history) :
       \E j \in 1..Len(lc.sent) : lc.sent[j] = lc.command_history[i].command
  /\ \A j \in 1..Len(lc.sent) :
       \E i \in 1..Len(lc.command_history) :
         lc.command_history[i].command = lc.sent[j]

\* The value of the aggregator's own state, and of a reader's snapshot.
OwnState(m) == Deref(m.heap, m.factory_state)
SnapshotValue(m) == Deref(m.heap, m.snapshot.top)

TelemetryOps == {"stations", "agvs", "conveyors", "alerts"}

\* C24 as stated: a snapshot handed to a reader is not changed by any later
\* telemetry ingestion, and a change the reader makes to its snapshot never
\* appears in the aggregator's own state.
C24_Original ==
  [][/\ (mq.snapshot.taken /\ lastCall'.op \in TelemetryOps)
        => SnapshotValue(mq') = SnapshotValue(mq)
     /\ lastCall'.op = "reader_write" => OwnState(mq') = OwnState(mq)]_vars

\* C25: when a decodable message is ingested every registered listener of
\* the category is called, in registration order, with the same device id
\* and record, whichever of them raise, and the record stays stored; an
\* undecodable payload leaves the snapshot unchanged and calls no listener.
C25_ListenersIsolated ==
  [][lastCall'.op \in {"stations", "agvs", "conveyors"} =>
       IF lastCall'.payload.kind = "object"
       THEN /\ Len(mq'.invoked) = Len(Listeners)
            /\ \A i \in 1..Len(Listeners) :
                 /\ mq'.invoked[i].handler = Listeners[i]
                 /\ mq'.invoked[i].id = lastCall'.id
                 /\ mq'.invoked[i].record = mq'.invoked[1].record
                 /\ mq'.invoked[i].raised = (Listeners[i] \in lastCall'.raising)
            /\ OwnState(mq')[lastCall'.op][lastCall'.id] = mq'.invoked[1].record
       ELSE /\ mq'.invoked = <<>>
            /\ OwnState(mq') = OwnState(mq)]_vars

\* A station message was ingested whose first listener raised: the second
\* listener was still called and the record is stored.
C25_Witness ==
  /\ lastCall.op = "stations"
  /\ lastCall.payload.kind = "object"
  /\ lastCall.raising = {"first"}
  /\ Len(mq.invoked) = 2
  /\ mq.invoked[1].raised /\ ~mq.invoked[2].raised
  /\ OwnState(mq).stations[lastCall.id] = mq.invoked[2].record

\* C26: the alert list never holds more than the cap; the retained entries
\* are the most recent ones, in arrival order (the alert numbered
\* alerts_seen is last and the numbers are consecutive).
C26_AlertsBounded ==
  LET alerts == OwnState(mq).alerts
  IN /\ Len(alerts) <= AlertCap
     /\ Len(alerts) = IF mq.alerts_seen < AlertCap THEN mq.alerts_seen ELSE AlertCap
     /\ \A i \in 1..Len(alerts) :
          alerts[i].id = mq.alerts_seen - Len(alerts) + i

\* More alerts than the cap have arrived: the oldest ones are gone.
C26_Witness ==
  /\ mq.alerts_seen > AlertCap
  /\ lastCall.op = "alerts"
  /\ Len(OwnState(mq).alerts) = AlertCap
  /\ OwnState(mq).alerts[1].id > 1

\* C27 as stated: every record stored in the snapshot has a status and
\* every list field it has is a list, never null.
C27_Original ==
  \A category \in {"stations", "agvs", "conveyors"} :
    \A id \in DeviceIds[category] :
      LET record == OwnState(mq)[category][id]
      IN record # NoRecord =>
           /\ record.status # Absent
           /\ \A field \in DOMAIN record \ {"status", "battery_level"} :
                record[field].kind = "list"

\* An oracle call of the task ended in a failure at the last step.
CycleFailed(task) ==
  /\ lastCall.op = "oracle"
  /\ lastCall.task = task
  /\ lastCall.outcome.kind # "commands"

\* C28: a cycle whose oracle call fails dispatches no command (nothing is
\* published at the failure and the cycle has nothing left to execute) and
\* leaves both loops alive: the planned loop is asleep until its next tick,
\* which comes, and the reactive loop is waiting and takes the next event.
C28_LoopsSurvive ==
  /\ [][(lastCall'.op = "oracle" /\ lastCall'.outcome.kind # "commands") =>
          /\ lc'.sent = lc.sent
          /\ lc'.command_history = lc.command_history
          /\ ~lc'.exec[lastCall'.task].running
          /\ lc'.ppc = "sleep" \/ lastCall'.task = "reactive"
          /\ lc'.rpc = "wait" \/ lastCall'.task = "planned"]_vars
  /\ CycleFailed("planned") ~> (lastCall.op = "tick")
  /\ (CycleFailed("reactive") /\ lc.decision_queue # <<>>) ~> (lastCall.op = "get")

\* A reactive cycle has just failed with an event waiting in the queue and
\* nothing was dispatched for it.
C28_Witness ==
  /\ CycleFailed("reactive")
  /\ lastCall.outcome.kind = "timeout"
  /\ lc.decision_queue # <<>>
  /\ lc.rpc = "wait"
  /\ ~lc.exec["reactive"].running

\* C29 as stated: an event dequeued while the planned cycle is between
\* building its context and finishing dispatch is not processed then.
C29_Original ==
  [][(lastCall'.op = "get" /\ PlannedMid(lc)) => lc'.rpc # "process"]_vars

\* What FactoryAgentManager's consumer does with an event it dequeues: while
\* is_processing is set the event is deferred, not processed; a deferred
\* event is appended to the queue if the queue has room at that moment and
\* dropped otherwise, and is never processed by the same deferral.
DeferralSafe ==
  /\ (lastCall'.op = "get" /\ lc.is_processing) =>
       (lc'.rpc = "defer" /\ lc'.handled = lc.handled)
  /\ lastCall'.op = "defer" =>
       /\ lc'.handled = lc.handled
       /\ IF Len(lc.decision_queue) < maxsize
          THEN /\ lc'.decision_queue = Append(lc.decision_queue, lc.taken)
               /\ lc'.dropped = lc.dropped
          ELSE /\ lc'.decision_queue = lc.decision_queue
               /\ lc'.dropped = Append(lc.dropped, lc.taken.id)

\* C30 as stated: the deferral is safe (see DeferralSafe) and, once planned
\* processing has ended, a deferred event that is still queued is
\* eventually processed.
C30_Original ==
  /\ [][DeferralSafe]_vars
  /\ \A id \in 1..MaxEvents :
       (/\ id \in lc.deferred
        /\ id \in Range(Ids(lc.decision_queue))
        /\ ~lc.is_processing) ~> (id \in Range(lc.handled))

\* C30 amended: an event dequeued while is_processing is set is not sent to
\* the oracle: after the delay it is put back at the tail of the queue, or
\* dropped if the queue is full at that moment; in no interleaving is a
\* deferred event both processed and re-enqueued, or lost while the queue
\* has room at the put-back. (Nothing is promised about its eventual
\* processing: it may be deferred again, or dropped at a later put-back.)
C30_Amended ==
  [][DeferralSafe]_vars

\* An event was deferred while the queue was full and dropped; another was
\* deferred, re-enqueued and is still waiting.
C30_Witness ==
  /\ lastCall.op = "defer"
  /\ lc.dropped # <<>>
  /\ \E id \in lc.deferred : id \in Range(Ids(lc.decision_queue))

\* C31: once the running flag is cleared no planned cycle is started, a loop
\* that has left stays out and runs nothing, and both loops leave: the
\* planned loop after its current cycle or sleep, the reactive loop after
\* its current queue wait or event.
C31_LoopsExit ==
  /\ [][/\ lastCall'.op = "tick" => lc.is_running
        /\ lc.ppc = "exited" =>
             (lc'.ppc = "exited" /\ lc'.exec["planned"] = lc.exec["planned"])
        /\ lc.rpc = "exited" =>
             (/\ lc'.rpc = "exited"
              /\ lc'.handled = lc.handled
              /\ lc'.exec["reactive"] = lc.exec["reactive"])]_vars
  /\ (~lc.is_running) ~> (lc.ppc = "exited" /\ lc.rpc = "exited")

\* stop() was called (and nothing was cancelled) while the planned loop was
\* in a cycle and the reactive loop held an event; both loops have left.
C31_Witness ==
  /\ lc.stop_calls = 1
  /\ ~lc.factory.shutdown_event
  /\ lc.ppc = "exited" /\ lc.rpc = "exited"
  /\ lc.handled # <<>>
  /\ lc.sent # <<>>

\* C32 as stated: after stop has been requested no command is published
\* and none is appended to the command history.
C32_Original ==
  [][~lc.is_running =>
       (lc'.sent = lc.sent /\ lc'.command_history = lc.command_history)]_vars

\* C33: a stop() or shutdown_all_lines() call raises nothing and leaves the
\* running flag cleared; the listener is disconnected at most once; a call
\* that finds the line stopped and its listener disconnected changes
\* nothing more, and neither does a shutdown_all_lines() that follows a
\* shutdown_all_lines(); after shutdown_all_lines the manager's
\* flag is cleared, its shutdown event set and the line commander stopped.
C33_Idempotent ==
  [][lastCall'.op \in {"stop", "shutdown_all_lines"} =>
       /\ ~lastCall'.raised
       /\ ~lc'.is_running
       /\ lc'.disconnects <= 1
       /\ lc'.stop_calls = lc.stop_calls + 1
       /\ (lastCall'.op = "stop" /\ ~lc.is_running /\ ~lc.is_connected) =>
            lc' = [lc EXCEPT !.stop_calls = @ + 1]
       /\ (/\ lastCall'.op = "shutdown_all_lines"
           /\ lc.factory.shutdown_event /\ ~lc.is_connected) =>
            lc' = [lc EXCEPT !.stop_calls = @ + 1]
       /\ lastCall'.op = "shutdown_all_lines" =>
            /\ ~lc'.factory.is_running
            /\ lc'.factory.shutdown_event
            /\ lc'.stop_calls >= 1]_vars

\* A second shutdown_all_lines has just returned; the listener was
\* disconnected once.
C33_Witness ==
  /\ lastCall.op = "shutdown_all_lines"
  /\ lc.stop_calls = 2
  /\ lc.disconnects = 1
  /\ ~lc.is_connected

\* C34 as stated: every construction returns the one instance, whose state
\* is initialised exactly once: no construction step ever empties the
\* processed set or lowers the assignment counter.
C34_Original ==
  /\ [](som.inits <= 1)
  /\ [][/\ processed_orders \subseteq processed_orders'
        /\ line_assignment_counter' >= line_assignment_counter]_vars

\* C35 as stated: every command FactoryAgentManager publishes passes its
\* command validation.
C35_Original ==
  \A i \in 1..Len(lc.sent) : FamValidateCommand(lc.sent[i])

\* C36 as stated: after FactoryAgentManager.stop() the running flag is
\* cleared, no planned cycle is started and no event is handed to the
\* oracle any more.
C36_Original ==
  /\ [](lc.stop_calls > 0 => ~lc.is_running)
  /\ [][lc.stop_calls > 0 =>
          /\ ~(lastCall'.op = "process_orders_cycle" /\ lc'.is_processing)
          /\ lastCall'.op # "process_reactive_event"]_vars

\* The identities of the events the graph holds that no reactive decision
\* has processed.
Unprocessed(l) == Range(Ids(l.graph_events)) \ Range(l.handled)

\* C37 as stated: no event is processed twice; none is dropped (once the
\* graph has run a reactive decision for as many events as the ingest node
\* took, every one of them has been processed); and an invocation that
\* holds no unprocessed event runs the planned operations.
C37_Original ==
  /\ [](NoDuplicates(lc.handled))
  /\ [](Len(lc.handled) >= Len(lc.graph_events) => Unprocessed(lc) = {})
  /\ [][(/\ lastCall'.op = "invoke"
         /\ Unprocessed(lc) = {}
         /\ lastCall'.drained = <<>>) => lastCall'.route = "planned_agent"]_vars

\* C38: a product that has a vehicle has one after every operation (an
\* update without agv_id does not clear it), and no product that has a
\* vehicle is returned by get_products_needing_transport, in any status.
C38_AgvSticks ==
  /\ [][\A r \in DOMAIN heapP :
          heapP[r].assigned_agv # NoneVal =>
            (r \in DOMAIN heapP' /\ heapP'[r].assigned_agv # NoneVal)]_vars
  /\ [](lastCall.op = "get_products_needing_transport" =>
          \A i \in 1..Len(lastCall.ret) :
            heapP[lastCall.ret[i]].assigned_agv = NoneVal)

\* A product that had been given AGV_1 was just reported at the quality
\* check by an update without agv_id, and still has AGV_1.
C38_Witness ==
  /\ lastCall.op = "update_product_status"
  /\ lastCall.agv_id = NoneVal
  /\ lastCall.new_status = AT_QUALITY_CHECK
  /\ lastCall.known
  /\ heapP[products[lastCall.product_id]].assigned_agv = "AGV_1"

\* C39: a station, AGV, conveyor or warehouse message makes the classifier
\* call _queue_decision_event at most once, so the decision queue grows by
\* 0 or 1 event and what it held stays in front.
C39_AtMostOneEvent ==
  [][lastCall'.op \in {"station_status", "agv_status", "conveyor_status",
                       "warehouse_status"} =>
       /\ lc'.puts \in {lc.puts, lc.puts + 1}
       /\ Len(lc'.decision_queue) \in {Len(lc.decision_queue),
                                       Len(lc.decision_queue) + 1}
       /\ IsPrefix(lc.decision_queue, lc'.decision_queue)
       /\ lastCall'.raised => lc'.puts = lc.puts]_vars

\* A blocked Conveyor_CQ with a product in its upper buffer was reported
\* first: both conveyor rules match and exactly one event, the congestion
\* event, is in the queue.
C39_Witness ==
  /\ lastCall.op = "conveyor_status"
  /\ lastCall.id = "Conveyor_CQ"
  /\ lastCall.raw.status = "blocked"
  /\ lastCall.raw.upper_buffer = List(1)
  /\ ~lastCall.raised
  /\ lc.puts = 1
  /\ Ids(lc.decision_queue) = <<1>>
  /\ lc.decision_queue[1].type = "conveyor_congestion"

\* C40 as stated: is_processing is set for as long as a planned cycle is in
\* flight, a second process_orders_cycle call that finds it set leaves it
\* set, and an event dequeued while a cycle is in flight is deferred.
C40_Original ==
  /\ [](lc.ppc = "oracle" => lc.is_processing)
  /\ [][(lastCall'.op = "process_orders_cycle" /\ lastCall'.skipped) =>
          lc'.is_processing]_vars
  /\ [][(lastCall'.op = "get" /\ lc.ppc = "oracle") => lc'.rpc = "defer"]_vars

====
